---------------------------- MODULE Spec2Model ----------------------------
(***************************************************************************)
(* Keyboard-layout resolution of winit on Windows                          *)
(* (src/platform_impl/windows/keyboard_layout.rs): the process-wide        *)
(* LAYOUT_CACHE behind its mutex, LayoutCache::get_current_layout,         *)
(* LayoutCache::prepare_layout with the Unicode probe and its dead-key     *)
(* latch, the string interner, Layout::get_key and vkey_to_non_char_key.   *)
(*                                                                         *)
(* Encodings.  A Key is a record [tag, name, s, addr, code]:               *)
(*   Key::Character(&'static str)  tag "Character", s the content (UTF-16  *)
(*                                 code units), addr the address of the    *)
(*                                 string the reference points to;         *)
(*   Key::Dead(Option<char>)       tag "Dead", s = <<ch>> or << >>;        *)
(*   any named variant (Key::Alt)  tag "Named", name "Alt";                *)
(*   Key::Unidentified(native)     tag "Unidentified", code the scan code  *)
(*                                 of NativeKeyCode::Windows(sc), or -1    *)
(*                                 for NativeKeyCode::Unidentified.        *)
(* A KeyCode is a record [kc, sc]: kc the variant name, sc the scan code   *)
(* carried by KeyCode::Unidentified(NativeKeyCode::Windows(sc)), else 0.   *)
(* A WindowsModifiers value is its bits, 0..15.                            *)
(***************************************************************************)
EXTENDS Integers, Sequences, FiniteSets, TLC

(***************************************************************************)
(* Virtual-key codes of winapi::um::winuser used by the source.            *)
(***************************************************************************)
VK_LBUTTON == 1
VK_RBUTTON == 2
VK_CANCEL == 3
VK_MBUTTON == 4
VK_XBUTTON1 == 5
VK_XBUTTON2 == 6
VK_BACK == 8
VK_TAB == 9
VK_CLEAR == 12
VK_RETURN == 13
VK_SHIFT == 16
VK_CONTROL == 17
VK_MENU == 18
VK_PAUSE == 19
VK_CAPITAL == 20
VK_KANA == 21
VK_HANGUL == 21
VK_JUNJA == 23
VK_FINAL == 24
VK_HANJA == 25
VK_KANJI == 25
VK_ESCAPE == 27
VK_CONVERT == 28
VK_NONCONVERT == 29
VK_ACCEPT == 30
VK_MODECHANGE == 31
VK_SPACE == 32
VK_PRIOR == 33
VK_NEXT == 34
VK_END == 35
VK_HOME == 36
VK_LEFT == 37
VK_UP == 38
VK_RIGHT == 39
VK_DOWN == 40
VK_SELECT == 41
VK_PRINT == 42
VK_EXECUTE == 43
VK_SNAPSHOT == 44
VK_INSERT == 45
VK_DELETE == 46
VK_HELP == 47
VK_LWIN == 91
VK_RWIN == 92
VK_APPS == 93
VK_SLEEP == 95
VK_NUMPAD0 == 96
VK_NUMPAD1 == 97
VK_NUMPAD2 == 98
VK_NUMPAD3 == 99
VK_NUMPAD4 == 100
VK_NUMPAD5 == 101
VK_NUMPAD6 == 102
VK_NUMPAD7 == 103
VK_NUMPAD8 == 104
VK_NUMPAD9 == 105
VK_MULTIPLY == 106
VK_ADD == 107
VK_SEPARATOR == 108
VK_SUBTRACT == 109
VK_DECIMAL == 110
VK_DIVIDE == 111
VK_F1 == 112
VK_F2 == 113
VK_F3 == 114
VK_F4 == 115
VK_F5 == 116
VK_F6 == 117
VK_F7 == 118
VK_F8 == 119
VK_F9 == 120
VK_F10 == 121
VK_F11 == 122
VK_F12 == 123
VK_F13 == 124
VK_F14 == 125
VK_F15 == 126
VK_F16 == 127
VK_F17 == 128
VK_F18 == 129
VK_F19 == 130
VK_F20 == 131
VK_F21 == 132
VK_F22 == 133
VK_F23 == 134
VK_F24 == 135
VK_NUMLOCK == 144
VK_SCROLL == 145
VK_LSHIFT == 160
VK_RSHIFT == 161
VK_LCONTROL == 162
VK_RCONTROL == 163
VK_LMENU == 164
VK_RMENU == 165
VK_BROWSER_BACK == 166
VK_BROWSER_FORWARD == 167
VK_BROWSER_REFRESH == 168
VK_BROWSER_STOP == 169
VK_BROWSER_SEARCH == 170
VK_BROWSER_FAVORITES == 171
VK_BROWSER_HOME == 172
VK_VOLUME_MUTE == 173
VK_VOLUME_DOWN == 174
VK_VOLUME_UP == 175
VK_MEDIA_NEXT_TRACK == 176
VK_MEDIA_PREV_TRACK == 177
VK_MEDIA_STOP == 178
VK_MEDIA_PLAY_PAUSE == 179
VK_LAUNCH_MAIL == 180
VK_LAUNCH_MEDIA_SELECT == 181
VK_LAUNCH_APP1 == 182
VK_LAUNCH_APP2 == 183
VK_OEM_1 == 186
VK_OEM_PLUS == 187
VK_OEM_COMMA == 188
VK_OEM_MINUS == 189
VK_OEM_PERIOD == 190
VK_OEM_2 == 191
VK_OEM_3 == 192
VK_OEM_4 == 219
VK_OEM_5 == 220
VK_OEM_6 == 221
VK_OEM_7 == 222
VK_OEM_8 == 223
VK_OEM_AX == 225
VK_OEM_102 == 226
VK_PROCESSKEY == 229
VK_OEM_ATTN == 240
VK_OEM_FINISH == 241
VK_OEM_COPY == 242
VK_OEM_AUTO == 243
VK_OEM_ENLW == 244
VK_OEM_BACKTAB == 245
VK_ATTN == 246
VK_CRSEL == 247
VK_EXSEL == 248
VK_EREOF == 249
VK_PLAY == 250
VK_ZOOM == 251
VK_OEM_CLEAR == 254

\* winapi::um::winnt language identifiers (keyboard_layout.rs:14)
LANG_JAPANESE == 17
LANG_KOREAN == 18

\* bitflags WindowsModifiers (keyboard_layout.rs:75-83)
SHIFT == 1
CONTROL == 2
ALT == 4
CAPS_LOCK == 8
FLAGS_END == 16

\* bit tests on u8 / bitflags values
HasBit(x, b) == (x \div b) % 2 = 1
SetBit(x, b) == IF HasBit(x, b) THEN x ELSE x + b
ClearBit(x, b) == IF HasBit(x, b) THEN x - b ELSE x

\* WindowsModifiers::contains / intersects for a single flag
contains(mods, flag) == HasBit(mods, flag)

(***************************************************************************)
(* Key and KeyCode values                                                  *)
(***************************************************************************)
NativeUnidentified == -1
NativeWindows(scancode) == scancode

Character(ref) == [tag |-> "Character", name |-> "", s |-> ref.s, addr |-> ref.addr, code |-> 0]
Dead(optch)    == [tag |-> "Dead", name |-> "", s |-> optch, addr |-> 0, code |-> 0]
Named(n)       == [tag |-> "Named", name |-> n, s |-> << >>, addr |-> 0, code |-> 0]
Unidentified(native) == [tag |-> "Unidentified", name |-> "", s |-> << >>, addr |-> 0, code |-> native]

IsUnidentified(key) == key.tag = "Unidentified"
IsCharacter(key) == key.tag = "Character"

KC(n) == [kc |-> n, sc |-> 0]
KCUnidentified(scancode) == [kc |-> "Unidentified", sc |-> scancode]

\* PRIMARYLANGID(LOWORD(hkl as u32))
PRIMARYLANGID(hkl) == (hkl % 65536) % 1024

(***************************************************************************)
(* vkey_to_non_char_key (keyboard_layout.rs:744-993).  The arms are in the  *)
(* order of the match; the arms of the source that return                  *)
(* Key::Unidentified(native_code) for vkeys not named here (navigation,     *)
(* gamepad, OEM_NEC/FJ, ICO, PA, ...) coincide with the default arm.        *)
(***************************************************************************)
vkey_to_non_char_key(vkey, native_code, hkl, has_alt_graph) ==
  LET primary_lang_id == PRIMARYLANGID(hkl)
      is_korean == primary_lang_id = LANG_KOREAN
      is_japanese == primary_lang_id = LANG_JAPANESE
  IN CASE vkey = VK_LBUTTON -> Unidentified(NativeUnidentified)
      [] vkey = VK_RBUTTON -> Unidentified(NativeUnidentified)
      [] vkey = VK_CANCEL -> Unidentified(native_code)
      [] vkey = VK_MBUTTON -> Unidentified(NativeUnidentified)
      [] vkey = VK_XBUTTON1 -> Unidentified(NativeUnidentified)
      [] vkey = VK_XBUTTON2 -> Unidentified(NativeUnidentified)
      [] vkey = VK_BACK -> Named("Backspace")
      [] vkey = VK_TAB -> Named("Tab")
      [] vkey = VK_CLEAR -> Named("Clear")
      [] vkey = VK_RETURN -> Named("Enter")
      [] vkey = VK_SHIFT -> Named("Shift")
      [] vkey = VK_CONTROL -> Named("Control")
      [] vkey = VK_MENU -> Named("Alt")
      [] vkey = VK_PAUSE -> Named("Pause")
      [] vkey = VK_CAPITAL -> Named("CapsLock")
      [] vkey = VK_HANGUL /\ is_korean -> Named("HangulMode")
      [] vkey = VK_KANA /\ is_japanese -> Named("KanaMode")
      [] vkey = VK_JUNJA -> Named("JunjaMode")
      [] vkey = VK_FINAL -> Named("FinalMode")
      [] vkey = VK_HANJA /\ is_korean -> Named("HanjaMode")
      [] vkey = VK_KANJI /\ is_japanese -> Named("KanjiMode")
      [] vkey = VK_ESCAPE -> Named("Escape")
      [] vkey = VK_CONVERT -> Named("Convert")
      [] vkey = VK_NONCONVERT -> Named("NonConvert")
      [] vkey = VK_ACCEPT -> Named("Accept")
      [] vkey = VK_MODECHANGE -> Named("ModeChange")
      [] vkey = VK_SPACE -> Named("Space")
      [] vkey = VK_PRIOR -> Named("PageUp")
      [] vkey = VK_NEXT -> Named("PageDown")
      [] vkey = VK_END -> Named("End")
      [] vkey = VK_HOME -> Named("Home")
      [] vkey = VK_LEFT -> Named("ArrowLeft")
      [] vkey = VK_UP -> Named("ArrowUp")
      [] vkey = VK_RIGHT -> Named("ArrowRight")
      [] vkey = VK_DOWN -> Named("ArrowDown")
      [] vkey = VK_SELECT -> Named("Select")
      [] vkey = VK_PRINT -> Named("Print")
      [] vkey = VK_EXECUTE -> Named("Execute")
      [] vkey = VK_SNAPSHOT -> Named("PrintScreen")
      [] vkey = VK_INSERT -> Named("Insert")
      [] vkey = VK_DELETE -> Named("Delete")
      [] vkey = VK_HELP -> Named("Help")
      [] vkey = VK_LWIN -> Named("Super")
      [] vkey = VK_RWIN -> Named("Super")
      [] vkey = VK_APPS -> Named("ContextMenu")
      [] vkey = VK_SLEEP -> Named("Standby")
      [] vkey = VK_NUMPAD0 -> Unidentified(native_code)
      [] vkey = VK_NUMPAD1 -> Unidentified(native_code)
      [] vkey = VK_NUMPAD2 -> Unidentified(native_code)
      [] vkey = VK_NUMPAD3 -> Unidentified(native_code)
      [] vkey = VK_NUMPAD4 -> Unidentified(native_code)
      [] vkey = VK_NUMPAD5 -> Unidentified(native_code)
      [] vkey = VK_NUMPAD6 -> Unidentified(native_code)
      [] vkey = VK_NUMPAD7 -> Unidentified(native_code)
      [] vkey = VK_NUMPAD8 -> Unidentified(native_code)
      [] vkey = VK_NUMPAD9 -> Unidentified(native_code)
      [] vkey = VK_MULTIPLY -> Unidentified(native_code)
      [] vkey = VK_ADD -> Unidentified(native_code)
      [] vkey = VK_SEPARATOR -> Unidentified(native_code)
      [] vkey = VK_SUBTRACT -> Unidentified(native_code)
      [] vkey = VK_DECIMAL -> Unidentified(native_code)
      [] vkey = VK_DIVIDE -> Unidentified(native_code)
      [] vkey = VK_F1 -> Named("F1")
      [] vkey = VK_F2 -> Named("F2")
      [] vkey = VK_F3 -> Named("F3")
      [] vkey = VK_F4 -> Named("F4")
      [] vkey = VK_F5 -> Named("F5")
      [] vkey = VK_F6 -> Named("F6")
      [] vkey = VK_F7 -> Named("F7")
      [] vkey = VK_F8 -> Named("F8")
      [] vkey = VK_F9 -> Named("F9")
      [] vkey = VK_F10 -> Named("F10")
      [] vkey = VK_F11 -> Named("F11")
      [] vkey = VK_F12 -> Named("F12")
      [] vkey = VK_F13 -> Named("F13")
      [] vkey = VK_F14 -> Named("F14")
      [] vkey = VK_F15 -> Named("F15")
      [] vkey = VK_F16 -> Named("F16")
      [] vkey = VK_F17 -> Named("F17")
      [] vkey = VK_F18 -> Named("F18")
      [] vkey = VK_F19 -> Named("F19")
      [] vkey = VK_F20 -> Named("F20")
      [] vkey = VK_F21 -> Named("F21")
      [] vkey = VK_F22 -> Named("F22")
      [] vkey = VK_F23 -> Named("F23")
      [] vkey = VK_F24 -> Named("F24")
      [] vkey = VK_NUMLOCK -> Named("NumLock")
      [] vkey = VK_SCROLL -> Named("ScrollLock")
      [] vkey = VK_LSHIFT -> Named("Shift")
      [] vkey = VK_RSHIFT -> Named("Shift")
      [] vkey = VK_LCONTROL -> Named("Control")
      [] vkey = VK_RCONTROL -> Named("Control")
      [] vkey = VK_LMENU -> Named("Alt")
      [] vkey = VK_RMENU -> IF has_alt_graph THEN Named("AltGraph") ELSE Named("Alt")
      [] vkey = VK_BROWSER_BACK -> Named("BrowserBack")
      [] vkey = VK_BROWSER_FORWARD -> Named("BrowserForward")
      [] vkey = VK_BROWSER_REFRESH -> Named("BrowserRefresh")
      [] vkey = VK_BROWSER_STOP -> Named("BrowserStop")
      [] vkey = VK_BROWSER_SEARCH -> Named("BrowserSearch")
      [] vkey = VK_BROWSER_FAVORITES -> Named("BrowserFavorites")
      [] vkey = VK_BROWSER_HOME -> Named("BrowserHome")
      [] vkey = VK_VOLUME_MUTE -> Named("AudioVolumeMute")
      [] vkey = VK_VOLUME_DOWN -> Named("AudioVolumeDown")
      [] vkey = VK_VOLUME_UP -> Named("AudioVolumeUp")
      [] vkey = VK_MEDIA_NEXT_TRACK -> Named("MediaTrackNext")
      [] vkey = VK_MEDIA_PREV_TRACK -> Named("MediaTrackPrevious")
      [] vkey = VK_MEDIA_STOP -> Named("MediaStop")
      [] vkey = VK_MEDIA_PLAY_PAUSE -> Named("MediaPlayPause")
      [] vkey = VK_LAUNCH_MAIL -> Named("LaunchMail")
      [] vkey = VK_LAUNCH_MEDIA_SELECT -> Named("LaunchMediaPlayer")
      [] vkey = VK_LAUNCH_APP1 -> Named("LaunchApplication1")
      [] vkey = VK_LAUNCH_APP2 -> Named("LaunchApplication2")
      [] vkey = VK_OEM_1 -> Unidentified(native_code)
      [] vkey = VK_OEM_PLUS -> Unidentified(native_code)
      [] vkey = VK_OEM_COMMA -> Unidentified(native_code)
      [] vkey = VK_OEM_MINUS -> Unidentified(native_code)
      [] vkey = VK_OEM_PERIOD -> Unidentified(native_code)
      [] vkey = VK_OEM_2 -> Unidentified(native_code)
      [] vkey = VK_OEM_3 -> Unidentified(native_code)
      [] vkey = VK_OEM_4 -> Unidentified(native_code)
      [] vkey = VK_OEM_5 -> Unidentified(native_code)
      [] vkey = VK_OEM_6 -> Unidentified(native_code)
      [] vkey = VK_OEM_7 -> Unidentified(native_code)
      [] vkey = VK_OEM_8 -> Unidentified(native_code)
      [] vkey = VK_OEM_AX -> Unidentified(native_code)
      [] vkey = VK_OEM_102 -> Unidentified(native_code)
      [] vkey = VK_PROCESSKEY -> Named("Process")
      [] vkey = VK_OEM_ATTN -> Named("Attn")
      [] vkey = VK_OEM_FINISH -> IF is_japanese THEN Named("Katakana") ELSE Unidentified(native_code)
      [] vkey = VK_OEM_COPY -> Named("Copy")
      [] vkey = VK_OEM_AUTO -> Named("Hankaku")
      [] vkey = VK_OEM_ENLW -> Named("Zenkaku")
      [] vkey = VK_OEM_BACKTAB -> Named("Romaji")
      [] vkey = VK_ATTN -> Named("KanaMode")
      [] vkey = VK_CRSEL -> Named("CrSel")
      [] vkey = VK_EXSEL -> Named("ExSel")
      [] vkey = VK_EREOF -> Named("EraseEof")
      [] vkey = VK_PLAY -> Named("Play")
      [] vkey = VK_ZOOM -> Named("ZoomToggle")
      [] vkey = VK_OEM_CLEAR -> Named("Clear")
      [] OTHER -> Unidentified(native_code)

(***************************************************************************)
(* NUMPAD_VKEYS, NUMPAD_KEYCODES, is_numpad_specific, keycode_to_vkey       *)
(***************************************************************************)
NUMPAD_VKEYS ==
  << VK_NUMPAD0, VK_NUMPAD1, VK_NUMPAD2, VK_NUMPAD3, VK_NUMPAD4, VK_NUMPAD5,
     VK_NUMPAD6, VK_NUMPAD7, VK_NUMPAD8, VK_NUMPAD9, VK_MULTIPLY, VK_ADD,
     VK_SEPARATOR, VK_SUBTRACT, VK_DECIMAL, VK_DIVIDE >>

NUMPAD_KEYCODES ==
  { KC(n) : n \in { "Numpad0", "Numpad1", "Numpad2", "Numpad3", "Numpad4",
                    "Numpad5", "Numpad6", "Numpad7", "Numpad8", "Numpad9",
                    "NumpadMultiply", "NumpadAdd", "NumpadComma",
                    "NumpadSubtract", "NumpadDecimal", "NumpadDivide" } }

\* the match lists fifteen vkeys: VK_MULTIPLY has no arm
is_numpad_specific(vk) ==
  vk \in { VK_NUMPAD0, VK_NUMPAD1, VK_NUMPAD2, VK_NUMPAD3, VK_NUMPAD4,
           VK_NUMPAD5, VK_NUMPAD6, VK_NUMPAD7, VK_NUMPAD8, VK_NUMPAD9,
           VK_ADD, VK_SUBTRACT, VK_DIVIDE, VK_DECIMAL, VK_SEPARATOR }

\* every arm of the match with a non-zero result; all other KeyCodes give 0
keycode_to_vkey(keycode, hkl) ==
  LET primary_lang_id == PRIMARYLANGID(hkl)
      is_korean == primary_lang_id = LANG_KOREAN
      is_japanese == primary_lang_id = LANG_JAPANESE
      k == keycode.kc
  IN CASE k = "AltLeft" -> VK_LMENU
       [] k = "AltRight" -> VK_RMENU
       [] k = "Backspace" -> VK_BACK
       [] k = "CapsLock" -> VK_CAPITAL
       [] k = "ContextMenu" -> VK_APPS
       [] k = "ControlLeft" -> VK_LCONTROL
       [] k = "ControlRight" -> VK_RCONTROL
       [] k = "Enter" -> VK_RETURN
       [] k = "SuperLeft" -> VK_LWIN
       [] k = "SuperRight" -> VK_RWIN
       [] k = "ShiftLeft" -> VK_RSHIFT
       [] k = "ShiftRight" -> VK_LSHIFT
       [] k = "Space" -> VK_SPACE
       [] k = "Tab" -> VK_TAB
       [] k = "Convert" -> VK_CONVERT
       [] k = "KanaMode" -> VK_KANA
       [] k = "Lang1" /\ is_korean -> VK_HANGUL
       [] k = "Lang1" /\ is_japanese -> VK_KANA
       [] k = "Lang2" /\ is_korean -> VK_HANJA
       [] k = "Lang3" /\ is_japanese -> VK_OEM_FINISH
       [] k = "NonConvert" -> VK_NONCONVERT
       [] k = "Delete" -> VK_DELETE
       [] k = "End" -> VK_END
       [] k = "Help" -> VK_HELP
       [] k = "Home" -> VK_HOME
       [] k = "Insert" -> VK_INSERT
       [] k = "PageDown" -> VK_NEXT
       [] k = "PageUp" -> VK_PRIOR
       [] k = "ArrowDown" -> VK_DOWN
       [] k = "ArrowLeft" -> VK_LEFT
       [] k = "ArrowRight" -> VK_RIGHT
       [] k = "ArrowUp" -> VK_UP
       [] k = "NumLock" -> VK_NUMLOCK
       [] k = "Numpad0" -> VK_NUMPAD0
       [] k = "Numpad1" -> VK_NUMPAD1
       [] k = "Numpad2" -> VK_NUMPAD2
       [] k = "Numpad3" -> VK_NUMPAD3
       [] k = "Numpad4" -> VK_NUMPAD4
       [] k = "Numpad5" -> VK_NUMPAD5
       [] k = "Numpad6" -> VK_NUMPAD6
       [] k = "Numpad7" -> VK_NUMPAD7
       [] k = "Numpad8" -> VK_NUMPAD8
       [] k = "Numpad9" -> VK_NUMPAD9
       [] k = "NumpadAdd" -> VK_ADD
       [] k = "NumpadBackspace" -> VK_BACK
       [] k = "NumpadClear" -> VK_CLEAR
       [] k = "NumpadComma" -> VK_SEPARATOR
       [] k = "NumpadDecimal" -> VK_DECIMAL
       [] k = "NumpadDivide" -> VK_DIVIDE
       [] k = "NumpadEnter" -> VK_RETURN
       [] k = "NumpadMultiply" -> VK_MULTIPLY
       [] k = "NumpadSubtract" -> VK_SUBTRACT
       [] k = "Escape" -> VK_ESCAPE
       [] k = "PrintScreen" -> VK_SNAPSHOT
       [] k = "ScrollLock" -> VK_SCROLL
       [] k = "Pause" -> VK_PAUSE
       [] k = "BrowserBack" -> VK_BROWSER_BACK
       [] k = "BrowserFavorites" -> VK_BROWSER_FAVORITES
       [] k = "BrowserForward" -> VK_BROWSER_FORWARD
       [] k = "BrowserHome" -> VK_BROWSER_HOME
       [] k = "BrowserRefresh" -> VK_BROWSER_REFRESH
       [] k = "BrowserSearch" -> VK_BROWSER_SEARCH
       [] k = "BrowserStop" -> VK_BROWSER_STOP
       [] k = "LaunchApp1" -> VK_LAUNCH_APP1
       [] k = "LaunchApp2" -> VK_LAUNCH_APP2
       [] k = "LaunchMail" -> VK_LAUNCH_MAIL
       [] k = "MediaPlayPause" -> VK_MEDIA_PLAY_PAUSE
       [] k = "MediaSelect" -> VK_LAUNCH_MEDIA_SELECT
       [] k = "MediaStop" -> VK_MEDIA_STOP
       [] k = "MediaTrackNext" -> VK_MEDIA_NEXT_TRACK
       [] k = "MediaTrackPrevious" -> VK_MEDIA_PREV_TRACK
       [] k = "AudioVolumeDown" -> VK_VOLUME_DOWN
       [] k = "AudioVolumeMute" -> VK_VOLUME_MUTE
       [] k = "AudioVolumeUp" -> VK_VOLUME_UP
       [] k = "Select" -> VK_SELECT
       [] k = "F1" -> VK_F1
       [] k = "F2" -> VK_F2
       [] k = "F3" -> VK_F3
       [] k = "F4" -> VK_F4
       [] k = "F5" -> VK_F5
       [] k = "F6" -> VK_F6
       [] k = "F7" -> VK_F7
       [] k = "F8" -> VK_F8
       [] k = "F9" -> VK_F9
       [] k = "F10" -> VK_F10
       [] k = "F11" -> VK_F11
       [] k = "F12" -> VK_F12
       [] k = "F13" -> VK_F13
       [] k = "F14" -> VK_F14
       [] k = "F15" -> VK_F15
       [] k = "F16" -> VK_F16
       [] k = "F17" -> VK_F17
       [] k = "F18" -> VK_F18
       [] k = "F19" -> VK_F19
       [] k = "F20" -> VK_F20
       [] k = "F21" -> VK_F21
       [] k = "F22" -> VK_F22
       [] k = "F23" -> VK_F23
       [] k = "F24" -> VK_F24
       [] OTHER -> 0

(***************************************************************************)
(* KeyCode::from_scancode (KeyCodeExtScancode for KeyCode): the Windows     *)
(* implementation is not among the source files; the scan codes used by     *)
(* the layouts below are mapped as the set-1 scan-code table does, and      *)
(* every other scan code sc gives KeyCode::Unidentified(Windows(sc)).       *)
(***************************************************************************)
from_scancode(scancode) ==
  CASE scancode = 3     -> KC("Digit2")          \* 0x0003
    [] scancode = 27    -> KC("BracketRight")    \* 0x001B
    [] scancode = 30    -> KC("KeyA")            \* 0x001E
    [] scancode = 42    -> KC("ShiftLeft")       \* 0x002A
    [] scancode = 48    -> KC("KeyB")            \* 0x0030
    [] scancode = 53    -> KC("Slash")           \* 0x0035
    [] scancode = 54    -> KC("ShiftRight")      \* 0x0036
    [] scancode = 55    -> KC("NumpadMultiply")  \* 0x0037
    [] scancode = 56    -> KC("AltLeft")         \* 0x0038
    [] scancode = 72    -> KC("Numpad8")         \* 0x0048
    [] scancode = 83    -> KC("NumpadDecimal")   \* 0x0053
    [] scancode = 112   -> KC("KanaMode")        \* 0x0070
    [] scancode = 57397 -> KC("NumpadDivide")    \* 0xE035
    [] scancode = 57400 -> KC("AltRight")        \* 0xE038
    [] scancode = 57416 -> KC("ArrowUp")         \* 0xE048
    [] OTHER -> KCUnidentified(scancode)

(***************************************************************************)
(* WindowsModifiers over a 256-entry key-state array                        *)
(***************************************************************************)
Pressed(key_state, vk) == HasBit(key_state[vk], 128)

active_modifiers(key_state) ==
  LET shift == Pressed(key_state, VK_SHIFT)
      lshift == Pressed(key_state, VK_LSHIFT)
      rshift == Pressed(key_state, VK_RSHIFT)
      control == Pressed(key_state, VK_CONTROL)
      lcontrol == Pressed(key_state, VK_LCONTROL)
      rcontrol == Pressed(key_state, VK_RCONTROL)
      alt == Pressed(key_state, VK_MENU)
      lalt == Pressed(key_state, VK_LMENU)
      ralt == Pressed(key_state, VK_RMENU)
      caps == HasBit(key_state[VK_CAPITAL], 1)
  IN (IF shift \/ lshift \/ rshift THEN SHIFT ELSE 0)
     + (IF control \/ lcontrol \/ rcontrol THEN CONTROL ELSE 0)
     + (IF alt \/ lalt \/ ralt THEN ALT ELSE 0)
     + (IF caps THEN CAPS_LOCK ELSE 0)

\* a modifier taken off by clearing the generic key alone
apply_modifier_generic_only(on, key_state, generic, left, right) ==
  IF on
  THEN [key_state EXCEPT ![generic] = SetBit(@, 128)]
  ELSE [key_state EXCEPT ![generic] = ClearBit(@, 128)]

\* one modifier of apply_to_kbd_state: the generic key's bit is set, or the bit
\* of all three keys is cleared
apply_modifier(on, key_state, generic, left, right) ==
  IF on
  THEN [key_state EXCEPT ![generic] = SetBit(@, 128)]
  ELSE [key_state EXCEPT ![generic] = ClearBit(@, 128),
                         ![left] = ClearBit(@, 128),
                         ![right] = ClearBit(@, 128)]

\* the CapsLock entry overwritten with the toggle bit
apply_caps_lock_entry_overwritten(on, key_state) ==
  IF on
  THEN [key_state EXCEPT ![VK_CAPITAL] = 1]
  ELSE [key_state EXCEPT ![VK_CAPITAL] = 0]

apply_caps_lock(on, key_state) ==
  IF on
  THEN [key_state EXCEPT ![VK_CAPITAL] = SetBit(@, 1)]
  ELSE [key_state EXCEPT ![VK_CAPITAL] = ClearBit(@, 1)]

apply_to_kbd_state(self, key_state) ==
  apply_caps_lock(contains(self, CAPS_LOCK),
    apply_modifier(contains(self, ALT),
      apply_modifier(contains(self, CONTROL),
        apply_modifier(contains(self, SHIFT), key_state, VK_SHIFT, VK_LSHIFT, VK_RSHIFT),
        VK_CONTROL, VK_LCONTROL, VK_RCONTROL),
      VK_MENU, VK_LMENU, VK_RMENU))

\* the control modifier removed whatever else is in the set
remove_only_ctrl_always(self) == ClearBit(self, CONTROL)

remove_only_ctrl(self) ==
  IF ~contains(self, ALT) THEN ClearBit(self, CONTROL) ELSE self

(***************************************************************************)
(* Frame extents (platform_impl/linux/x11/util/geometry.rs).  Coordinates   *)
(* are i16, sizes u16, extents u32.                                         *)
(***************************************************************************)
I16_MIN == -32768
I16_MAX == 32767
U16_MODULUS == 65536

\* i16::saturating_sub
saturating_sub_i16(a, b) ==
  IF a - b > I16_MAX THEN I16_MAX
  ELSE IF a - b < I16_MIN THEN I16_MIN
  ELSE a - b

\* u16::saturating_sub
saturating_sub_u16(a, b) == IF a - b < 0 THEN 0 ELSE a - b

\* `x as u16` for an i16 x: the same 16 bits read unsigned
as_u16(x) == x % U16_MODULUS

\* FrameExtents::new (lines 81-88)
FrameExtents_new(left, right, top, bottom) ==
  [left |-> left, right |-> right, top |-> top, bottom |-> bottom]

\* FrameExtents::from_border (lines 90-92)
FrameExtents_from_border(border) == FrameExtents_new(border, border, border, border)

\* Option<FrameExtents> as get_frame_extents returns it
NoExtents == [some |-> FALSE, extents |-> FrameExtents_new(0, 0, 0, 0)]
SomeExtents(extents) == [some |-> TRUE, extents |-> extents]

\* lines 291-292: is_top_level is "SomeTrue", "SomeFalse" or "None"
nested_window(same_as_child, top_level) == ~(same_as_child \/ top_level = "SomeTrue")

\* line 348
nested_offset_y(inner_y_rel_root, outer_y) ==
  as_u16(saturating_sub_i16(inner_y_rel_root, outer_y))

\* lines 346-355, offset_y the value of line 348
nested_extents(offset_y, width, height, outer_width, outer_height) ==
  FrameExtents_new(saturating_sub_u16(outer_width, width) \div 2,
                   saturating_sub_u16(outer_width, width) \div 2,
                   offset_y,
                   saturating_sub_u16(saturating_sub_u16(outer_height, height), offset_y))

\* XConnection::get_frame_extents_heuristic (lines 261-370); c holds what the
\* X server answers: translate_coords, get_geometry of the window and of the
\* outermost window, is_top_level and get_frame_extents
get_frame_extents_heuristic(c) ==
  IF c.ewmh.some
  THEN [frame_extents |-> IF ~nested_window(c.same_as_child, c.top_level)
                          THEN FrameExtents_new(0, 0, 0, 0)
                          ELSE c.ewmh.extents,
        heuristic_path |-> "Supported"]
  ELSE IF nested_window(c.same_as_child, c.top_level)
  THEN [frame_extents |-> nested_extents(nested_offset_y(c.inner_y_rel_root, c.outer_y),
                                         c.width, c.height, c.outer_width, c.outer_height),
        heuristic_path |-> "UnsupportedNested"]
  ELSE [frame_extents |-> FrameExtents_from_border(c.border),
        heuristic_path |-> "UnsupportedBordered"]


(***************************************************************************)
(* The host platform.  A keyboard layout handle is MAKELONG(language id,    *)
(* device id); what the OS answers for a handle is fixed by the handle.     *)
(* Eight layouts cover the cases the code distinguishes:                    *)
(*   en-US  no AltGr, no dead key, Control+Alt yields nothing;              *)
(*   de-DE  AltGr level ("2" -> superscript two), a dead key;               *)
(*   en-GB  Control+Alt yields the unmodified character, and two            *)
(*          character vkeys report the same scan code;                      *)
(*   fr-FR  AltGr level, dead keys (one of them an unpaired surrogate), no  *)
(*          numpad scan codes, a key whose output is not valid UTF-16;      *)
(*   ja-JP, ko-KR  the IME key VK_KANA / VK_HANGUL, numpad divide probes    *)
(*          to "/"; on ko-KR Control+Alt yields the unmodified character    *)
(*          and VK_HOME reports the scan code of VK_UP;                     *)
(*   es-ES, it-IT  compact keyboards: right Alt and, on es-ES, the key "2"  *)
(*          (AltGr level) and a dead key; on it-IT the numpad multiply key. *)
(* ToUnicodeEx translates a vkey whether or not the layout reports a scan   *)
(* code for it.                                                             *)
(***************************************************************************)
MakeHkl(device, langid) == device * 65536 + langid

HKL_EN_US == MakeHkl(1033, 1033)
HKL_DE_DE == MakeHkl(1031, 1031)
HKL_EN_GB == MakeHkl(2057, 2057)
HKL_FR_FR == MakeHkl(1036, 1036)
HKL_JA_JP == MakeHkl(1041, 1041)
HKL_KO_KR == MakeHkl(1042, 1042)
HKL_ES_ES == MakeHkl(3082, 3082)
HKL_IT_IT == MakeHkl(1040, 1040)

Hkls == { HKL_EN_US, HKL_DE_DE, HKL_EN_GB, HKL_FR_FR, HKL_JA_JP, HKL_KO_KR,
          HKL_ES_ES, HKL_IT_IT }

\* the layout translates the numpad vkeys
OsHasNumpad(hkl) == hkl # HKL_FR_FR

\* the vkeys of the keyboard of the layout
OsKeys(hkl) ==
  CASE hkl = HKL_ES_ES -> { VK_RMENU, 50, VK_OEM_6 }
    [] hkl = HKL_IT_IT -> { VK_RMENU, VK_MULTIPLY }
    [] hkl = HKL_KO_KR -> (0 .. 255)
    [] OTHER -> (0 .. 255) \ { VK_HOME }

\* winuser::MapVirtualKeyExW(vk, MAPVK_VK_TO_VSC_EX, hkl): 0 is "no mapping".
\* Navigation vkeys map to the numpad scan codes (as if NumLock was off).
MapVirtualKeyExW(vk, hkl) ==
  CASE vk \notin OsKeys(hkl) -> 0
    [] vk = VK_MENU -> 56
    [] vk = VK_LMENU -> 56
    [] vk = VK_RMENU -> 57400
    [] vk = VK_HOME -> 72
    [] vk = VK_UP -> 72
    [] vk = VK_DELETE -> 83
    [] vk = VK_NUMPAD8 /\ OsHasNumpad(hkl) -> 72
    [] vk = VK_DECIMAL /\ OsHasNumpad(hkl) -> 83
    [] vk = VK_MULTIPLY /\ OsHasNumpad(hkl) -> 55
    [] vk = VK_DIVIDE /\ OsHasNumpad(hkl) -> 57397
    [] vk = 50 -> 3                                       \* '2'
    [] vk = 65 -> 30                                      \* 'A'
    [] vk = 66 -> IF hkl = HKL_EN_GB THEN 30 ELSE 48 \* 'B'
    [] vk = VK_OEM_2 -> 53
    [] vk = VK_OEM_6 -> 27
    [] vk = VK_KANA /\ PRIMARYLANGID(hkl) \in { LANG_JAPANESE, LANG_KOREAN } -> 112
    [] OTHER -> 0

\* the vkeys MapVirtualKeyExW reports a scan code for, layout by layout
MappedVkeysOf == [hkl \in Hkls |-> { vk \in 0 .. 255 : MapVirtualKeyExW(vk, hkl) # 0 }]

NoneOut == [kind |-> "none", units |-> << >>]
StrOut(units) == [kind |-> "str", units |-> units]
DeadOut(unit) == [kind |-> "dead", units |-> << unit >>]

\* What the layout assigns to vkey vk under the modifiers mods read from the
\* key-state array, with no dead key pending.
OsTranslate(hkl, vk, mods) ==
  LET shift == HasBit(mods, SHIFT)
      ctrl == HasBit(mods, CONTROL)
      alt == HasBit(mods, ALT)
      caps == HasBit(mods, CAPS_LOCK)
      level3 == ctrl /\ alt /\ hkl \notin { HKL_EN_GB, HKL_KO_KR }
      accented == hkl \in { HKL_DE_DE, HKL_FR_FR, HKL_ES_ES }   \* AltGr level, dead key
      ctrlOnly == ctrl /\ ~alt
      upper == shift # caps
  IN CASE vk = 65 /\ ctrlOnly -> StrOut(<< 1 >>)
       [] ctrlOnly -> NoneOut
       [] level3 /\ ~accented -> NoneOut
       [] level3 /\ vk = 50 /\ ~shift -> StrOut(<< 178 >>)
       [] level3 /\ vk = VK_OEM_2 /\ ~shift /\ hkl = HKL_FR_FR -> DeadOut(126)
       [] level3 /\ vk = VK_OEM_2 /\ shift /\ hkl = HKL_FR_FR -> DeadOut(56320)
       [] level3 -> NoneOut
       [] vk = 65 -> StrOut(IF upper THEN << 65 >> ELSE << 97 >>)
       [] vk = 66 -> StrOut(IF upper THEN << 66 >> ELSE << 98 >>)
       [] vk = 50 -> StrOut(IF shift THEN << 34 >> ELSE << 50 >>)
       [] vk = VK_OEM_2 /\ hkl = HKL_FR_FR /\ shift -> StrOut(<< 55296 >>)
       [] vk = VK_OEM_2 -> StrOut(IF shift THEN << 63 >> ELSE << 47 >>)
       [] vk = VK_OEM_6 /\ accented -> DeadOut(IF shift THEN 96 ELSE 94)
       [] vk = VK_OEM_6 -> StrOut(IF shift THEN << 125 >> ELSE << 93 >>)
       [] vk = VK_NUMPAD8 /\ OsHasNumpad(hkl) -> StrOut(<< 56 >>)
       [] vk = VK_DECIMAL /\ OsHasNumpad(hkl) ->
            StrOut(IF hkl = HKL_DE_DE THEN << 44 >> ELSE << 46 >>)
       [] vk = VK_MULTIPLY /\ OsHasNumpad(hkl) -> StrOut(<< 42 >>)
       [] vk = VK_DIVIDE /\ hkl \in { HKL_JA_JP, HKL_KO_KR } -> StrOut(<< 47 >>)
       [] OTHER -> NoneOut

\* the accent d combined with the character units
OsCompose(d, units) ==
  CASE d = 94 /\ units = << 97 >> -> << 226 >>
    [] d = 94 /\ units = << 65 >> -> << 194 >>
    [] d = 96 /\ units = << 97 >> -> << 224 >>
    [] d = 96 /\ units = << 65 >> -> << 192 >>
    [] OTHER -> << d >> \o units

NoDead == 0

\* winuser::ToUnicodeEx(vkey, scancode, key_state, buffer, 8, 0, hkl) with the
\* kernel's pending dead key `latch` (NoDead when none): the value returned,
\* the code units written and the dead key pending afterwards.  A dead key
\* returns -1 and stays pending; the next translated key consumes it.
OsDeliver(latch, out) ==
  IF latch = NoDead
  THEN CASE out.kind = "none" -> [wide_len |-> 0, label_wide |-> << >>, latch |-> NoDead]
         [] out.kind = "str" -> [wide_len |-> Len(out.units), label_wide |-> out.units, latch |-> NoDead]
         [] out.kind = "dead" -> [wide_len |-> -1, label_wide |-> out.units, latch |-> out.units[1]]
  ELSE CASE out.kind = "none" -> [wide_len |-> 0, label_wide |-> << >>, latch |-> latch]
         [] out.kind = "str" ->
              [wide_len |-> Len(OsCompose(latch, out.units)),
               label_wide |-> OsCompose(latch, out.units), latch |-> NoDead]
         [] out.kind = "dead" ->
              [wide_len |-> 2, label_wide |-> << latch, out.units[1] >>, latch |-> NoDead]

\* The keyboard events of other threads that reach the OS while the thread
\* holding the mutex is inside prepare_layout: a sequence of events
\* [at, kind, accent] in the order they happen, `at` the number of the
\* ToUnicodeEx call the event precedes, `kind` "reset" for
\* Window::reset_dead_keys and "type" for a typed dead key with `accent`.
NoInterrupt == << >>

\* the dead-key state of the OS as one construction sees it: the dead key
\* pending, the ToUnicodeEx calls made so far and the events still to come
KeyboardState(pending, interrupt) ==
  [pending |-> pending, made |-> 0, interrupt |-> interrupt]

\* an event precedes the next ToUnicodeEx call
Interrupted(os) ==
  os.interrupt # << >> /\ Head(os.interrupt).at = os.made + 1

\* the dead key pending when the next ToUnicodeEx call starts: the event that
\* precedes the call has acted
Pending(os) ==
  IF ~Interrupted(os) THEN os.pending
  ELSE IF Head(os.interrupt).kind = "reset" THEN NoDead
  ELSE OsDeliver(os.pending, DeadOut(Head(os.interrupt).accent)).latch

\* one ToUnicodeEx call of to_unicode_string (lines 445-453 and 456-464) on
\* the keyboard state `latch`
ToUnicodeEx(latch, vkey, scancode, key_state, hkl) ==
  [OsDeliver(Pending(latch), OsTranslate(hkl, vkey, active_modifiers(key_state)))
     EXCEPT !.latch = [pending |-> @, made |-> latch.made + 1,
                       interrupt |-> IF Interrupted(latch) THEN Tail(latch.interrupt)
                                     ELSE latch.interrupt]]

(***************************************************************************)
(* OsString::from_wide(..).into_string() and str::chars().next()            *)
(***************************************************************************)
IsHighSurrogate(u) == u >= 55296 /\ u <= 56319
IsLowSurrogate(u) == u >= 56320 /\ u <= 57343

RECURSIVE Utf16Valid(_)
Utf16Valid(units) ==
  IF units = << >> THEN TRUE
  ELSE IF IsHighSurrogate(units[1])
       THEN Len(units) >= 2 /\ IsLowSurrogate(units[2])
            /\ Utf16Valid(SubSeq(units, 3, Len(units)))
  ELSE IF IsLowSurrogate(units[1]) THEN FALSE
  ELSE Utf16Valid(Tail(units))

\* Some(first char) as a one-element sequence holding the scalar value
FirstChar(units) ==
  IF units = << >> THEN << >>
  ELSE IF IsHighSurrogate(units[1])
       THEN << 65536 + (units[1] - 55296) * 1024 + (units[2] - 56320) >>
  ELSE << units[1] >>

(***************************************************************************)
(* LayoutCache::to_unicode_string (keyboard_layout.rs:437-483).  The result *)
(* carries the ToUnicodeResult, the dead key left pending in the OS and the *)
(* ToUnicodeEx calls made (phase 1 the probe, phase 2 the repeated call).   *)
(***************************************************************************)
ResultDead(optch) == [kind |-> "Dead", s |-> optch]

ProbeEntry(phase, latch, vkey, scancode, key_state, r) ==
  [phase |-> phase, latch |-> Pending(latch), vkey |-> vkey, scancode |-> scancode,
   mods |-> active_modifiers(key_state), wide_len |-> r.wide_len,
   label_wide |-> r.label_wide]

\* lines 454-474: the first call reported a dead key (r1); r2 is the call
\* repeated with the same inputs
to_unicode_dead(r2, r1, latch, key_state, vkey, scancode) ==
  [result |-> ResultDead(IF r2.wide_len > 0 /\ Utf16Valid(r2.label_wide)
                         THEN FirstChar(r2.label_wide) ELSE << >>),
   latch |-> r2.latch,
   calls |-> << ProbeEntry(1, latch, vkey, scancode, key_state, r1),
                ProbeEntry(2, r1.latch, vkey, scancode, key_state, r2) >>]

\* lines 454-482, r1 the result of the first ToUnicodeEx call
to_unicode_first(r1, latch, key_state, vkey, scancode, locale_id) ==
  IF r1.wide_len < 0
  THEN \* If it's dead, we run `ToUnicode` again to consume the dead-key
       to_unicode_dead(ToUnicodeEx(r1.latch, vkey, scancode, key_state, locale_id),
                       r1, latch, key_state, vkey, scancode)
  ELSE [result |-> IF r1.wide_len > 0 /\ Utf16Valid(r1.label_wide)
                   THEN [kind |-> "Str", s |-> r1.label_wide]
                   ELSE [kind |-> "None", s |-> << >>],
        latch |-> r1.latch,
        calls |-> << ProbeEntry(1, latch, vkey, scancode, key_state, r1) >>]

\* a probe made a second time when it yields nothing
to_unicode_string_retrying(latch, key_state, vkey, scancode, locale_id) ==
  LET first == to_unicode_first(ToUnicodeEx(latch, vkey, scancode, key_state, locale_id),
                                latch, key_state, vkey, scancode, locale_id)
      again == to_unicode_first(ToUnicodeEx(first.latch, vkey, scancode, key_state, locale_id),
                                first.latch, key_state, vkey, scancode, locale_id)
  IN IF first.result.kind = "None"
     THEN [again EXCEPT !.calls = first.calls \o again.calls]
     ELSE first

to_unicode_string(latch, key_state, vkey, scancode, locale_id) ==
  to_unicode_first(ToUnicodeEx(latch, vkey, scancode, key_state, locale_id),
                   latch, key_state, vkey, scancode, locale_id)

(***************************************************************************)
(* get_or_insert_str (keyboard_layout.rs:486-500).  `strings` is the set of *)
(* leaked strings [s, addr]; Box::leak gives an address no other string     *)
(* has.  The literal "/" of the source is a static string, at address 0.    *)
(***************************************************************************)
StaticSlash == [s |-> << 47 >>, addr |-> 0]

Leak(strings, string) == [s |-> string, addr |-> Cardinality(strings) + 1]

\* every call leaking a new string
get_or_insert_str_always_leaks(strings, string) ==
  [ref |-> Leak(strings, string), strings |-> strings \cup { Leak(strings, string) }]

get_or_insert_str(strings, string) ==
  IF \E existing \in strings : existing.s = string
  THEN [ref |-> CHOOSE existing \in strings : existing.s = string, strings |-> strings]
  ELSE [ref |-> Leak(strings, string), strings |-> strings \cup { Leak(strings, string) }]

(***************************************************************************)
(* HashMap insert / get                                                     *)
(***************************************************************************)
EmptyMap == [k \in {} |-> 0]
Put(m, k, v) == [x \in (DOMAIN m) \cup { k } |-> IF x = k THEN v ELSE m[x]]

(***************************************************************************)
(* LayoutCache::prepare_layout (keyboard_layout.rs:276-435).  Each loop is  *)
(* a pass over its range in increasing order; a loop body is split into     *)
(* the operators of its successive statements, each taking the values       *)
(* computed so far.                                                         *)
(***************************************************************************)
\* let mut key_state = [0u8; 256];
ZeroKeyState == [vk \in 0 .. 255 |-> 0]

\* the value inserted whatever vkey_to_non_char_key returned
numlock_off_insert_unidentified_kept(map_vkey, map_value, off) ==
  IF map_vkey = 0 THEN off
  ELSE Put(off, map_vkey, map_value)

\* lines 311-321, for a vk whose scancode is on the numpad
numlock_off_insert(map_vkey, map_value, off) ==
  IF map_vkey = 0 THEN off
  ELSE IF IsUnidentified(map_value) THEN off
  ELSE Put(off, map_vkey, map_value)

\* the loop body without the test of line 311 on the KeyCode
numlock_off_mapped_any_keycode(scancode, vk, locale_id, off) ==
  IF scancode = 0 THEN off
  ELSE IF ~is_numpad_specific(vk)
       THEN numlock_off_insert(
              keycode_to_vkey(from_scancode(scancode), locale_id),
              vkey_to_non_char_key(vk, NativeWindows(scancode % 65536), locale_id, FALSE),
              off)
       ELSE off

\* lines 307-322, scancode the scan code of vk
numlock_off_mapped(scancode, vk, locale_id, off) ==
  IF scancode = 0 THEN off
  ELSE IF ~is_numpad_specific(vk) /\ from_scancode(scancode) \in NUMPAD_KEYCODES
       THEN numlock_off_insert(
              keycode_to_vkey(from_scancode(scancode), locale_id),
              vkey_to_non_char_key(vk, NativeWindows(scancode % 65536), locale_id, FALSE),
              off)
       ELSE off

\* one iteration of `for vk in 0..256` (lines 303-323)
numlock_off_step(vk, locale_id, off) ==
  numlock_off_mapped(MapVirtualKeyExW(vk, locale_id), vk, locale_id, off)

\* the iterations lo..hi of the loop, in increasing order of vk
RECURSIVE numlock_off_pass(_, _, _, _)
numlock_off_pass(lo, hi, locale_id, off) ==
  IF lo = hi THEN numlock_off_step(lo, locale_id, off)
  ELSE IF \A vk \in MappedVkeysOf[locale_id] : vk < lo \/ vk > hi
       THEN off   \* each of these iterations takes the `continue` of line 308
  ELSE LET mid == (lo + hi) \div 2
           first == numlock_off_pass(lo, mid, locale_id, off)
       IN IF first = first   \* the first half is evaluated before the second
          THEN numlock_off_pass(mid + 1, hi, locale_id, first)
          ELSE first

\* lines 332-337; st: [on, strings, latch, log]
numlock_on_insert(ins, unicode, vk, st) ==
  [on |-> Put(st.on, vk, Character(ins.ref)), strings |-> ins.strings,
   latch |-> unicode.latch, log |-> st.log \o unicode.calls]

numlock_on_record(unicode, vk, st) ==
  IF unicode.result.kind = "Str"
  THEN numlock_on_insert(get_or_insert_str(st.strings, unicode.result.s), unicode, vk, st)
  ELSE [st EXCEPT !.latch = unicode.latch, !.log = st.log \o unicode.calls]

\* one iteration of `for vk in NUMPAD_VKEYS.iter()` (lines 326-338): the probe
\* is made whatever the scan code is
numlock_on_step(vk, key_state, locale_id, st) ==
  numlock_on_record(
    to_unicode_string(st.latch, key_state, vk, MapVirtualKeyExW(vk, locale_id), locale_id),
    vk, st)

RECURSIVE numlock_on_pass(_, _, _, _)
numlock_on_pass(i, key_state, locale_id, st) ==
  IF i > Len(NUMPAD_VKEYS) THEN st
  ELSE LET next == numlock_on_step(NUMPAD_VKEYS[i], key_state, locale_id, st)
       IN IF next.latch = next.latch   \* this iteration is evaluated before the next one
          THEN numlock_on_pass(i + 1, key_state, locale_id, next)
          ELSE next

\* "/" forced for the numpad divide key under every combination
probed_key_slash_always(unicode, ins, preliminary_key, key_code, mod_state) ==
  CASE unicode.result.kind = "Str" -> Character(ins.ref)
    [] unicode.result.kind = "Dead" -> Dead(unicode.result.s)
    [] unicode.result.kind = "None" ->
         IF key_code = KC("NumpadDivide")
         THEN Character(StaticSlash)
         ELSE preliminary_key

\* lines 377-398: the key of a probed vkey
probed_key(unicode, ins, preliminary_key, key_code, mod_state) ==
  CASE unicode.result.kind = "Str" -> Character(ins.ref)
    [] unicode.result.kind = "Dead" -> Dead(unicode.result.s)
    [] unicode.result.kind = "None" ->
         IF ~contains(mod_state, ALT) /\ ~contains(mod_state, CONTROL)
            /\ key_code = KC("NumpadDivide")
         THEN Character(StaticSlash)
         ELSE preliminary_key

\* the comparison made under every combination that contains Control and Alt
check_alt_graph_any_control_alt(key, key_code, mod_state, has_alt_graph, keys) ==
  IF ~has_alt_graph /\ contains(mod_state, CONTROL + ALT)
  THEN IF 0 \in DOMAIN keys
          /\ key_code \in DOMAIN keys[0]
          /\ IsCharacter(keys[0][key_code])
          /\ IsCharacter(key)
       THEN key.s # keys[0][key_code].s
       ELSE has_alt_graph
  ELSE has_alt_graph

\* lines 404-415: has_alt_graph after the check for alt graph
check_alt_graph(key, key_code, mod_state, has_alt_graph, keys) ==
  IF ~has_alt_graph /\ mod_state = CONTROL + ALT
  THEN IF 0 \in DOMAIN keys
          /\ key_code \in DOMAIN keys[0]
          /\ IsCharacter(keys[0][key_code])
          /\ IsCharacter(key)
       THEN key.s # keys[0][key_code].s
       ELSE has_alt_graph
  ELSE has_alt_graph

\* layout.keys.get(&WindowsModifiers::empty()).unwrap() panics
unwrap_fails(mod_state, has_alt_graph, keys) ==
  ~has_alt_graph /\ mod_state = CONTROL + ALT /\ 0 \notin DOMAIN keys

\* what one iteration of the inner loop did: the vkey and its KeyCode under
\* mod_state, the outcome of the probe ("Named" when the vkey was recorded
\* without a probe), the key recorded, the tables then stored in layout.keys
\* and has_alt_graph after the iteration
KeysStep(vk, key_code, mod_state, unicode, key, stored, has_alt_graph) ==
  [vk |-> vk, key_code |-> key_code, mod_state |-> mod_state, unicode |-> unicode,
   key |-> key, stored |-> stored, has_alt_graph |-> has_alt_graph]

\* an insertion that keeps the entry an earlier vkey wrote
keys_step_record_first_kept(key, unicode, ins, vk, key_code, mod_state, st) ==
  [keys_for_this_mod |-> IF key_code \in DOMAIN st.keys_for_this_mod
                         THEN st.keys_for_this_mod
                         ELSE Put(st.keys_for_this_mod, key_code, key),
   keys |-> st.keys,
   has_alt_graph |-> check_alt_graph(key, key_code, mod_state, st.has_alt_graph, st.keys),
   panicked |-> st.panicked \/ unwrap_fails(mod_state, st.has_alt_graph, st.keys),
   strings |-> IF unicode.result.kind = "Str" THEN ins.strings ELSE st.strings,
   latch |-> unicode.latch,
   log |-> st.log \o unicode.calls,
   steps |-> Append(st.steps,
               KeysStep(vk, key_code, mod_state, unicode.result.kind, key, DOMAIN st.keys,
                        check_alt_graph(key, key_code, mod_state, st.has_alt_graph, st.keys)))]

\* lines 400-417, key the key of the probed vkey
\* st: [keys_for_this_mod, keys, has_alt_graph, panicked, strings, latch, log, steps]
keys_step_record(key, unicode, ins, vk, key_code, mod_state, st) ==
  [keys_for_this_mod |-> Put(st.keys_for_this_mod, key_code, key),
   keys |-> st.keys,
   has_alt_graph |-> check_alt_graph(key, key_code, mod_state, st.has_alt_graph, st.keys),
   panicked |-> st.panicked \/ unwrap_fails(mod_state, st.has_alt_graph, st.keys),
   strings |-> IF unicode.result.kind = "Str" THEN ins.strings ELSE st.strings,
   latch |-> unicode.latch,
   log |-> st.log \o unicode.calls,
   steps |-> Append(st.steps,
               KeysStep(vk, key_code, mod_state, unicode.result.kind, key, DOMAIN st.keys,
                        check_alt_graph(key, key_code, mod_state, st.has_alt_graph, st.keys)))]

keys_step_interned(ins, unicode, preliminary_key, vk, key_code, mod_state, st) ==
  keys_step_record(probed_key(unicode, ins, preliminary_key, key_code, mod_state),
                   unicode, ins, vk, key_code, mod_state, st)

\* a loop body that records nothing when the probe yields nothing
keys_step_probed_none_dropped(unicode, preliminary_key, vk, key_code, mod_state, st) ==
  IF unicode.result.kind = "None"
  THEN [st EXCEPT !.latch = unicode.latch, !.log = st.log \o unicode.calls]
  ELSE keys_step_interned(get_or_insert_str(st.strings, unicode.result.s),
                          unicode, preliminary_key, vk, key_code, mod_state, st)

\* lines 376-417, unicode the result of to_unicode_string
keys_step_probed(unicode, preliminary_key, vk, key_code, mod_state, st) ==
  keys_step_interned(get_or_insert_str(st.strings, unicode.result.s),
                     unicode, preliminary_key, vk, key_code, mod_state, st)

\* every vkey probed, the named ones too
keys_step_named_probing_all(preliminary_key, key_code, scancode, vk, mod_state, key_state, locale_id, st) ==
  keys_step_probed(
    to_unicode_string(st.latch, key_state, vk, scancode, locale_id),
    preliminary_key, vk, key_code, mod_state, st)

\* lines 366-417, preliminary_key the result of vkey_to_non_char_key
keys_step_named(preliminary_key, key_code, scancode, vk, mod_state, key_state, locale_id, st) ==
  IF ~IsUnidentified(preliminary_key)
  THEN [st EXCEPT !.keys_for_this_mod = Put(@, key_code, preliminary_key),
                   !.steps = Append(@, KeysStep(vk, key_code, mod_state, "Named",
                                                preliminary_key, DOMAIN st.keys,
                                                st.has_alt_graph))]
  ELSE keys_step_probed(
         to_unicode_string(st.latch, key_state, vk, scancode, locale_id),
         preliminary_key, vk, key_code, mod_state, st)

\* the native code built from the vkey in place of the scan code
keys_step_mapped_vkey_native(scancode, vk, mod_state, key_state, locale_id, st) ==
  IF scancode = 0 THEN st
  ELSE keys_step_named(
         vkey_to_non_char_key(vk, NativeWindows(vk), locale_id, FALSE),
         from_scancode(scancode), scancode, vk, mod_state, key_state, locale_id, st)

\* lines 356-417, scancode the scan code of vk
keys_step_mapped(scancode, vk, mod_state, key_state, locale_id, st) ==
  IF scancode = 0 THEN st
  ELSE keys_step_named(
         vkey_to_non_char_key(vk, NativeWindows(scancode % 65536), locale_id, FALSE),
         from_scancode(scancode), scancode, vk, mod_state, key_state, locale_id, st)

\* one iteration of `for vk in 0..256` under mod_state (lines 352-418)
keys_step(vk, mod_state, key_state, locale_id, st) ==
  keys_step_mapped(MapVirtualKeyExW(vk, locale_id), vk, mod_state, key_state, locale_id, st)

\* the iterations lo..hi of the loop, in increasing order of vk
RECURSIVE keys_vk_pass(_, _, _, _, _, _)
keys_vk_pass(lo, hi, mod_state, key_state, locale_id, st) ==
  IF lo = hi THEN keys_step(lo, mod_state, key_state, locale_id, st)
  ELSE IF \A vk \in MappedVkeysOf[locale_id] : vk < lo \/ vk > hi
       THEN st   \* each of these iterations takes the `continue` of line 357
  ELSE LET mid == (lo + hi) \div 2
           first == keys_vk_pass(lo, mid, mod_state, key_state, locale_id, st)
       IN IF first.latch = first.latch   \* the first half is evaluated before the second
          THEN keys_vk_pass(mid + 1, hi, mod_state, key_state, locale_id, first)
          ELSE first

\* line 419: layout.keys.insert(mod_state, keys_for_this_mod)
keys_insert(st, mod_state) ==
  [st EXCEPT !.keys = Put(st.keys, mod_state, st.keys_for_this_mod)]

\* lines 343-419 for one mod_state, key_state the array after apply_to_kbd_state
keys_for_mod(key_state, mod_state, locale_id, st) ==
  [key_state |-> key_state,
   st |-> keys_insert(
            keys_vk_pass(0, 255, mod_state, key_state, locale_id,
                         [st EXCEPT !.keys_for_this_mod = EmptyMap]),
            mod_state)]

\* the combinations processed from 15 down to 0
RECURSIVE keys_pass_descending(_, _, _)
keys_pass_descending(mod_state, locale_id, acc) ==
  IF mod_state = FLAGS_END THEN acc
  ELSE LET next == keys_for_mod(apply_to_kbd_state(FLAGS_END - 1 - mod_state, acc.key_state),
                                FLAGS_END - 1 - mod_state, locale_id, acc.st)
       IN IF next.st.latch = next.st.latch
          THEN keys_pass_descending(mod_state + 1, locale_id, next)
          ELSE next

\* for mod_state in 0..mods_end (lines 342-420); acc: [key_state, st]
RECURSIVE keys_pass(_, _, _)
keys_pass(mod_state, locale_id, acc) ==
  IF mod_state = FLAGS_END THEN acc
  ELSE LET next == keys_for_mod(apply_to_kbd_state(mod_state, acc.key_state),
                                mod_state, locale_id, acc.st)
       IN IF next.st.latch = next.st.latch   \* this iteration is evaluated before the next one
          THEN keys_pass(mod_state + 1, locale_id, next)
          ELSE next

\* a construction that ends without the second pass
retrofit_skipped(layout) == layout

\* a second pass that relabels the left Alt key as well
retrofit_both_alt_keys(layout) ==
  IF layout.has_alt_graph
  THEN [layout EXCEPT !.keys =
          [m \in DOMAIN layout.keys |->
             [kc \in DOMAIN layout.keys[m] |->
                IF kc \in { KC("AltRight"), KC("AltLeft") }
                THEN Named("AltGraph") ELSE layout.keys[m][kc]]]]
  ELSE layout

\* Second pass: replace right alt keys with AltGr if the layout has alt graph
retrofit(layout) ==
  IF layout.has_alt_graph
  THEN [layout EXCEPT !.keys =
          [m \in DOMAIN layout.keys |->
             [kc \in DOMAIN layout.keys[m] |->
                IF kc = KC("AltRight") THEN Named("AltGraph") ELSE layout.keys[m][kc]]]]
  ELSE layout

\* lines 422-434 on the layout the first pass leaves: the Layout returned, with
\* the interner, the OS dead-key latch and the ToUnicodeEx calls as the
\* construction leaves them; first_pass is the layout before the second pass
prepare_second_pass(layout, st) ==
  [layout |-> retrofit(layout),
   first_pass |-> layout,
   strings |-> st.strings,
   latch |-> st.latch,
   panicked |-> st.panicked,
   log |-> st.log,
   steps |-> st.steps]

\* the layout after the keys loops (lines 270-276, 340-420)
prepare_finish(off, on, st, locale_id) ==
  prepare_second_pass([hkl |-> locale_id,
                       numlock_on_keys |-> on.on,
                       numlock_off_keys |-> off,
                       keys |-> st.keys,
                       has_alt_graph |-> st.has_alt_graph],
                      st)

\* lines 340-434, on the result of the numlock_on_keys loop
prepare_keys(off, on, locale_id) ==
  prepare_finish(off, on,
    keys_pass(0, locale_id,
              [key_state |-> ZeroKeyState,
               st |-> [keys_for_this_mod |-> EmptyMap, keys |-> EmptyMap,
                       has_alt_graph |-> FALSE, panicked |-> FALSE,
                       strings |-> on.strings, latch |-> on.latch,
                       log |-> on.log, steps |-> << >>]]).st,
    locale_id)

prepare_layout(strings, latch, locale_id) ==
  prepare_keys(
    numlock_off_pass(0, 255, locale_id, EmptyMap),
    numlock_on_pass(1, ZeroKeyState, locale_id,
                    [on |-> EmptyMap, strings |-> strings, latch |-> latch, log |-> << >>]),
    locale_id)

(***************************************************************************)
(* Layout::get_key (keyboard_layout.rs:189-231)                             *)
(***************************************************************************)
\* the NumLock maps consulted with the NumLock state inverted
get_key_from_tables_numlock_inverted(layout, mods, num_lock_on, vkey, native_code, keycode) ==
  IF ~num_lock_on /\ vkey \in DOMAIN layout.numlock_on_keys
  THEN layout.numlock_on_keys[vkey]
  ELSE IF num_lock_on /\ vkey \in DOMAIN layout.numlock_off_keys
       THEN layout.numlock_off_keys[vkey]
  ELSE IF mods \in DOMAIN layout.keys /\ keycode \in DOMAIN layout.keys[mods]
       THEN layout.keys[mods][keycode]
  ELSE Unidentified(native_code)

\* the modifier tables consulted before the NumLock maps
get_key_from_tables_keys_first(layout, mods, num_lock_on, vkey, native_code, keycode) ==
  IF mods \in DOMAIN layout.keys /\ keycode \in DOMAIN layout.keys[mods]
  THEN layout.keys[mods][keycode]
  ELSE IF num_lock_on /\ vkey \in DOMAIN layout.numlock_on_keys
       THEN layout.numlock_on_keys[vkey]
  ELSE IF ~num_lock_on /\ vkey \in DOMAIN layout.numlock_off_keys
       THEN layout.numlock_off_keys[vkey]
  ELSE Unidentified(native_code)

\* the tables consulted as in the source, the native code dropped when
\* nothing resolves
get_key_from_tables_native_dropped(layout, mods, num_lock_on, vkey, native_code, keycode) ==
  IF num_lock_on /\ vkey \in DOMAIN layout.numlock_on_keys
  THEN layout.numlock_on_keys[vkey]
  ELSE IF ~num_lock_on /\ vkey \in DOMAIN layout.numlock_off_keys
       THEN layout.numlock_off_keys[vkey]
  ELSE IF mods \in DOMAIN layout.keys /\ keycode \in DOMAIN layout.keys[mods]
       THEN layout.keys[mods][keycode]
  ELSE Unidentified(NativeUnidentified)

\* lines 216-230
get_key_from_tables(layout, mods, num_lock_on, vkey, native_code, keycode) ==
  IF num_lock_on /\ vkey \in DOMAIN layout.numlock_on_keys
  THEN layout.numlock_on_keys[vkey]
  ELSE IF ~num_lock_on /\ vkey \in DOMAIN layout.numlock_off_keys
       THEN layout.numlock_off_keys[vkey]
  ELSE IF mods \in DOMAIN layout.keys /\ keycode \in DOMAIN layout.keys[mods]
       THEN layout.keys[mods][keycode]
  ELSE Unidentified(native_code)

\* the virtual key used directly even when it is the unknown alt key
get_key_from_vkey_unknown_alt(key_from_vkey, layout, mods, num_lock_on, vkey, native_code, keycode) ==
  IF ~IsUnidentified(key_from_vkey)
  THEN key_from_vkey
  ELSE get_key_from_tables(layout, mods, num_lock_on, vkey, native_code, keycode)

\* lines 199-230, key_from_vkey the result of vkey_to_non_char_key
get_key_from_vkey(key_from_vkey, layout, mods, num_lock_on, vkey, native_code, keycode) ==
  IF vkey # VK_MENU /\ ~IsUnidentified(key_from_vkey)
  THEN key_from_vkey
  ELSE get_key_from_tables(layout, mods, num_lock_on, vkey, native_code, keycode)

get_key(layout, mods, num_lock_on, vkey, scancode, keycode) ==
  get_key_from_vkey(
    vkey_to_non_char_key(vkey, NativeWindows(scancode), layout.hkl, layout.has_alt_graph),
    layout, mods, num_lock_on, vkey, NativeWindows(scancode), keycode)

(***************************************************************************)
(* The program: threads that lock LAYOUT_CACHE (keyboard_layout.rs:25-27),  *)
(* call get_current_layout on the guarded cache, resolve keys against the   *)
(* returned Layout and drop the guard.  Two layouts are installed and the   *)
(* active one changes at any time; a dead key may be pending when the       *)
(* program starts, and dead keys are typed and reset while a layout is      *)
(* constructed (Interrupts).                                                *)
(***************************************************************************)
NThreads == 2
Threads == 1 .. NThreads
NoThread == 0

\* key events << vkey, scancode, KeyCode >> resolved by the single-layout
\* program
AllKeyEvents ==
  { << VK_RMENU, 57400, KC("AltRight") >>,
    << VK_MENU, 57400, KC("AltRight") >>,
    << VK_MENU, 56, KC("AltLeft") >>,
    << VK_LMENU, 56, KC("AltLeft") >>,
    << VK_NUMPAD8, 72, KC("Numpad8") >>,
    << VK_UP, 57416, KC("ArrowUp") >>,
    << VK_UP, 72, KC("Numpad8") >>,
    << VK_DECIMAL, 83, KC("NumpadDecimal") >>,
    << VK_DELETE, 83, KC("NumpadDecimal") >>,
    << VK_MULTIPLY, 55, KC("NumpadMultiply") >>,
    << VK_DIVIDE, 57397, KC("NumpadDivide") >>,
    << 50, 3, KC("Digit2") >>,
    << 65, 30, KC("KeyA") >>,
    << VK_OEM_2, 53, KC("Slash") >>,
    << VK_OEM_6, 27, KC("BracketRight") >>,
    << VK_KANA, 112, KC("KanaMode") >>,
    << VK_LBUTTON, 0, KCUnidentified(0) >>,
    << 0, 99, KCUnidentified(99) >>,
    << 50, 57347, KC("Digit2") >> }   \* scancode and keycode are separate arguments

VARIABLES
  installed,    \* layouts the OS can make active
  active,       \* active[t]: what GetKeyboardLayout(0) returns on thread t
  dead_key,     \* the dead key pending in the OS (NoDead when none)
  mutex,        \* the thread holding the LAYOUT_CACHE lock, or NoThread
  layouts,      \* LayoutCache::layouts
  strings,      \* LayoutCache::strings
  pc,           \* pc[t]: "idle", "locked", "vacant", "ready", "resolved", "mods"
  locale_id,    \* locale_id[t]: the local of get_current_layout (0 outside a call)
  entry,        \* entry[t]: "occupied" / "vacant" as the last call found it
  call,         \* call[t]: the last get_key call made through the guard
  pressed,      \* the vkeys whose GetKeyState high-order bit is set
  mods_call,    \* mods_call[t]: the last get_agnostic_mods call made through the guard
  str_call,     \* the last get_or_insert_str call applied on its own
  vkey_call,    \* the last vkey_to_non_char_key call applied on its own
  built,        \* history: << [id, thread] >> of the prepare_layout runs
  probe_log,    \* history: probe_log[id] the ToUnicodeEx calls of id's construction
  build_log,    \* history: build_log[id] the iterations of the keys loops of id's
                \* construction and whether its unwrap panicked
  kbd_call,     \* the last apply_to_kbd_state call applied on its own
  ctrl_call,    \* remove_only_ctrl applied on its own, once or repeatedly
  frame_call,   \* the last get_frame_extents_heuristic call applied on its own
  code_call     \* the last call of a helper of the numlock_off_keys loop applied on its own

vars == << installed, active, dead_key, mutex, layouts, strings, pc, locale_id,
           entry, call, pressed, mods_call, str_call, vkey_call, built, probe_log, build_log,
           kbd_call, ctrl_call, frame_call, code_call >>

NoCall == [made |-> FALSE, hkl |-> 0, mods |-> 0, num_lock_on |-> FALSE, vkey |-> 0,
           scancode |-> 0, keycode |-> KC(""), result |-> Unidentified(NativeUnidentified)]

\* the vkeys get_agnostic_mods reads with GetKeyState
ModifierVkeys == { VK_SHIFT, VK_CONTROL, VK_MENU, VK_RMENU, VK_LWIN, VK_RWIN }

NoStrCall == [made |-> FALSE, candidate |-> << >>, before |-> {}, ref |-> StaticSlash]

NoVkeyCall == [made |-> FALSE, vkey |-> 0, native_code |-> NativeUnidentified, hkl |-> 0,
               has_alt_graph |-> FALSE, result |-> Unidentified(NativeUnidentified)]

NoKbdCall == [made |-> FALSE, self |-> 0, before |-> ZeroKeyState, after |-> ZeroKeyState]

NoCtrlCall == [applied |-> 0, self |-> 0, previous |-> 0, result |-> 0]

NoFrameCall ==
  [made |-> FALSE, same_as_child |-> FALSE, top_level |-> "None", ewmh |-> NoExtents,
   inner_y_rel_root |-> 0, width |-> 0, height |-> 0, border |-> 0,
   outer_y |-> 0, outer_width |-> 0, outer_height |-> 0,
   result |-> [frame_extents |-> FrameExtents_new(0, 0, 0, 0), heuristic_path |-> "Supported"]]

NoCodeCall ==
  [made |-> FALSE, op |-> "none", vk |-> 0, scancode |-> 0, keycode |-> KCUnidentified(0),
   hkl |-> 0, numpad_specific |-> FALSE, map_vkey |-> 0, off |-> EmptyMap]

NoModsCall ==
  [made |-> FALSE, changed |-> FALSE, hkl |-> 0, pressed |-> {}, result |-> {}]

\* the dead key that may be pending when the program starts: none, or the
\* accent of the dead key (VK_OEM_6, no modifier) of an installed layout
StartPending(ids) ==
  { NoDead } \cup { OsTranslate(id, VK_OEM_6, 0).units[1] :
                      id \in { h \in ids : OsTranslate(h, VK_OEM_6, 0).kind = "dead" } }

Init ==
  /\ installed \in { { HKL_ES_ES, HKL_IT_IT }, { HKL_EN_US, HKL_EN_GB } }
  /\ active \in [Threads -> installed]
  /\ dead_key \in StartPending(installed)
  /\ mutex = NoThread
  /\ layouts = EmptyMap
  /\ strings = {}
  /\ pc = [t \in Threads |-> "idle"]
  /\ locale_id = [t \in Threads |-> 0]
  /\ entry = [t \in Threads |-> "none"]
  /\ call = [t \in Threads |-> NoCall]
  /\ pressed = {}
  /\ mods_call = [t \in Threads |-> NoModsCall]
  /\ str_call = NoStrCall
  /\ vkey_call = NoVkeyCall
  /\ kbd_call = NoKbdCall
  /\ ctrl_call = NoCtrlCall
  /\ frame_call = NoFrameCall
  /\ code_call = NoCodeCall
  /\ built = << >>
  /\ probe_log = EmptyMap
  /\ build_log = EmptyMap

\* the user or the system switches the input language of thread t
SwitchLayout(t, id) ==
  /\ id \in installed
  /\ id # active[t]
  /\ active' = [active EXCEPT ![t] = id]
  /\ UNCHANGED << code_call, ctrl_call, frame_call, kbd_call, str_call, vkey_call, pressed, mods_call, installed, dead_key, mutex, layouts, strings, pc, locale_id,
                  entry, call, built, probe_log, build_log >>

\* a lock that never blocks
MutexFree_never_blocks == TRUE

\* Mutex::lock blocks while another thread holds the guard
MutexFree == mutex = NoThread

\* LAYOUT_CACHE.lock().unwrap()
Lock(t) ==
  /\ pc[t] = "idle"
  /\ MutexFree
  /\ mutex' = t
  /\ pc' = [pc EXCEPT ![t] = "locked"]
  /\ UNCHANGED << code_call, ctrl_call, frame_call, kbd_call, str_call, vkey_call, pressed, mods_call, installed, active, dead_key, layouts, strings, locale_id, entry,
                  call, built, probe_log, build_log >>

\* an entry lookup that never finds the id
IsOccupied_always_vacant(map, id) == FALSE

\* self.layouts.entry(locale_id) is Entry::Occupied
IsOccupied(map, id) == id \in DOMAIN map

\* an entry filled with a Layout without tables before its construction
Lookup_inserting_first(t) ==
  /\ pc[t] = "locked"
  /\ locale_id' = [locale_id EXCEPT ![t] = active[t]]
  /\ IF IsOccupied(layouts, active[t])
     THEN /\ pc' = [pc EXCEPT ![t] = "ready"]
          /\ entry' = [entry EXCEPT ![t] = "occupied"]
          /\ UNCHANGED layouts
     ELSE /\ pc' = [pc EXCEPT ![t] = "vacant"]
          /\ entry' = [entry EXCEPT ![t] = "vacant"]
          /\ layouts' = Put(layouts, active[t],
                            [hkl |-> active[t], numlock_on_keys |-> EmptyMap,
                             numlock_off_keys |-> EmptyMap, keys |-> EmptyMap,
                             has_alt_graph |-> FALSE])
  /\ UNCHANGED << code_call, ctrl_call, frame_call, kbd_call, str_call, vkey_call, pressed, mods_call, installed, active, dead_key, mutex, strings, call,
                  built, probe_log, build_log >>

\* get_current_layout, lines 246-248: read the active layout id and look it up;
\* Entry::Occupied returns the stored Layout.
Lookup(t) ==
  /\ pc[t] = "locked"
  /\ locale_id' = [locale_id EXCEPT ![t] = active[t]]
  /\ IF IsOccupied(layouts, active[t])
     THEN /\ pc' = [pc EXCEPT ![t] = "ready"]
          /\ entry' = [entry EXCEPT ![t] = "occupied"]
     ELSE /\ pc' = [pc EXCEPT ![t] = "vacant"]
          /\ entry' = [entry EXCEPT ![t] = "vacant"]
  /\ UNCHANGED << code_call, ctrl_call, frame_call, kbd_call, str_call, vkey_call, pressed, mods_call, installed, active, dead_key, mutex, layouts, strings, call,
                  built, probe_log, build_log >>

\* the cache keeping only the layout inserted last
Insert_evicting(t, d, p) ==
  /\ layouts' = Put(EmptyMap, locale_id[t], p.layout)
  /\ strings' = p.strings
  /\ dead_key' = p.latch.pending
  /\ probe_log' = Put(probe_log, locale_id[t], p.log)
  /\ build_log' = Put(build_log, locale_id[t], [panicked |-> p.panicked, steps |-> p.steps,
                      first_pass |-> p.first_pass, interrupt |-> d])

\* get_current_layout, lines 249-252: Entry::Vacant prepares the layout and
\* inserts it; p the result of prepare_layout under the events d.
Insert(t, d, p) ==
  /\ layouts' = Put(layouts, locale_id[t], p.layout)
  /\ strings' = p.strings
  /\ dead_key' = p.latch.pending
  /\ probe_log' = Put(probe_log, locale_id[t], p.log)
  /\ build_log' = Put(build_log, locale_id[t], [panicked |-> p.panicked, steps |-> p.steps,
                      first_pass |-> p.first_pass, interrupt |-> d])

\* The ToUnicodeEx calls of prepare_layout are made one by one (lines 445 and
\* 456) and the mutex does not cover the dead-key state of the OS: while
\* thread t builds a layout, Window::reset_dead_keys (window.rs:447-461) or a
\* dead key typed on the window of another thread may act before any of the
\* calls.  At most MaxInterrupts events act during one construction, and
\* events act during at most MaxInterruptedBuilds constructions of a
\* behaviour.
MaxInterrupts == 1
MaxInterruptedBuilds == 1

\* the dead keys that can be typed while thread t builds a layout: the dead
\* key (VK_OEM_6) of the layout active on the window of another thread
TypedAccents(t) ==
  { OsTranslate(active[u], VK_OEM_6, 0).units[1] :
      u \in { v \in Threads \ { t } : OsTranslate(active[v], VK_OEM_6, 0).kind = "dead" } }

\* the event sequences that continue d with one event before a later call k;
\* log: the ToUnicodeEx calls of the construction under the events d.  The
\* events that change the state of the keyboard before call k are
\* reset_dead_keys when a dead key is pending (it leaves a keyboard with none
\* as it is) and a typed dead key.
Continued(d, log, accents) ==
  { Append(d, e) :
      e \in UNION { (IF log[k].latch # NoDead
                     THEN { [at |-> k, kind |-> "reset", accent |-> NoDead] } ELSE {})
                    \cup { [at |-> k, kind |-> "type", accent |-> a] : a \in accents } :
                      k \in (IF d = << >> THEN 1 ELSE d[Len(d)].at + 1) .. Len(log) } }

\* the sequences of at most n events that change the state of the keyboard
\* during the construction of layout id started with the dead key `pending`
RECURSIVE EventSequences(_, _, _, _, _)
EventSequences(n, interned, pending, id, accents) ==
  IF n = 0 THEN { NoInterrupt }
  ELSE EventSequences(n - 1, interned, pending, id, accents)
       \cup UNION { Continued(d, prepare_layout(interned, KeyboardState(pending, d), id).log,
                              accents) :
                      d \in { x \in EventSequences(n - 1, interned, pending, id, accents) :
                                Len(x) = n - 1 } }

\* the events that may reach the OS while thread t builds layout id
Interrupts(t, id) ==
  IF Cardinality({ b \in DOMAIN build_log : build_log[b].interrupt # NoInterrupt })
       < MaxInterruptedBuilds
  THEN EventSequences(MaxInterrupts, strings, dead_key, id, TypedAccents(t))
  ELSE { NoInterrupt }

Build(t) ==
  /\ pc[t] = "vacant"
  /\ \E d \in Interrupts(t, locale_id[t]) :
       Insert(t, d, prepare_layout(strings, KeyboardState(dead_key, d), locale_id[t]))
  /\ built' = Append(built, [id |-> locale_id[t], thread |-> t])
  /\ pc' = [pc EXCEPT ![t] = "ready"]
  /\ UNCHANGED << code_call, ctrl_call, frame_call, kbd_call, str_call, vkey_call, pressed, mods_call, installed, active, mutex, locale_id, entry, call >>

\* the user types the dead key of the active layout of thread t (VK_OEM_6,
\* no modifier): the OS translates the keystroke and keeps the accent pending,
\* or consumes the accent that was pending
TypeDeadKey(t) ==
  /\ OsTranslate(active[t], VK_OEM_6, 0).kind = "dead"
  /\ dead_key' = OsDeliver(dead_key, OsTranslate(active[t], VK_OEM_6, 0)).latch
  /\ UNCHANGED << code_call, ctrl_call, frame_call, kbd_call, str_call, vkey_call, pressed, mods_call, installed, active, mutex, layouts, strings,
                  pc, locale_id, entry, call, built, probe_log, build_log >>

\* Window::reset_dead_keys (window.rs:447-461): reset the dead key state of
\* the keyboard
ResetDeadKeys ==
  /\ dead_key' = NoDead
  /\ UNCHANGED << code_call, ctrl_call, frame_call, kbd_call, str_call, vkey_call, pressed, mods_call, installed, active, mutex, layouts, strings,
                  pc, locale_id, entry, call, built, probe_log, build_log >>

\* layout.get_key(..) on the Layout get_current_layout returned
GetKey(t, mods, num_lock_on, ev) ==
  /\ pc[t] = "ready"
  /\ pc' = [pc EXCEPT ![t] = "resolved"]
  /\ call' = [call EXCEPT ![t] =
       [made |-> TRUE, hkl |-> locale_id[t], mods |-> mods,
        num_lock_on |-> num_lock_on, vkey |-> ev[1], scancode |-> ev[2],
        keycode |-> ev[3],
        result |-> get_key(layouts[locale_id[t]], mods, num_lock_on, ev[1], ev[2], ev[3])]]
  /\ UNCHANGED << code_call, ctrl_call, frame_call, kbd_call, str_call, vkey_call, pressed, mods_call, installed, active, dead_key, mutex, layouts, strings,
                  locale_id, entry, built, probe_log, build_log >>

\* the caller takes the Key and goes on with the Layout it holds
TakeKey(t) ==
  /\ pc[t] = "resolved"
  /\ pc' = [pc EXCEPT ![t] = "ready"]
  /\ call' = [call EXCEPT ![t] = NoCall]
  /\ UNCHANGED << code_call, ctrl_call, frame_call, kbd_call, str_call, vkey_call, pressed, mods_call, installed, active, dead_key, mutex, layouts, strings,
                  locale_id, entry, built, probe_log, build_log >>

\* fn key_pressed (lines 29-31): bit 15 of GetKeyState(vkey)
key_pressed(os_pressed, vkey) == vkey \in os_pressed

\* get_agnostic_mods, lines 258-273, layout the Layout get_current_layout
\* returned; a ModifiersState is the set of its flags
filter_out_altgr_any_layout(layout, os_pressed) ==
  key_pressed(os_pressed, VK_RMENU)

filter_out_altgr(layout, os_pressed) ==
  layout.has_alt_graph /\ key_pressed(os_pressed, VK_RMENU)

agnostic_mods(layout, os_pressed) ==
  (IF key_pressed(os_pressed, VK_SHIFT) THEN { "SHIFT" } ELSE {})
  \cup (IF key_pressed(os_pressed, VK_CONTROL) /\ ~filter_out_altgr(layout, os_pressed)
        THEN { "CONTROL" } ELSE {})
  \cup (IF key_pressed(os_pressed, VK_MENU) /\ ~filter_out_altgr(layout, os_pressed)
        THEN { "ALT" } ELSE {})
  \cup (IF key_pressed(os_pressed, VK_LWIN) \/ key_pressed(os_pressed, VK_RWIN)
        THEN { "SUPER" } ELSE {})

\* the modifiers kept from the guard's earlier call
ModsCall_cached(t, layout) ==
  [made |-> TRUE,
   changed |-> mods_call[t].made /\ mods_call[t].pressed # pressed,
   hkl |-> layout.hkl, pressed |-> pressed,
   result |-> IF mods_call[t].made THEN mods_call[t].result
              ELSE agnostic_mods(layout, pressed)]

\* the record of a get_agnostic_mods call on layout under the OS key state:
\* `changed` tells that the key state differs from the one the guard's call
\* before it read
ModsCall(t, layout) ==
  [made |-> TRUE,
   changed |-> mods_call[t].made /\ mods_call[t].pressed # pressed,
   hkl |-> layout.hkl, pressed |-> pressed, result |-> agnostic_mods(layout, pressed)]

\* a layout prepared for the call and dropped after it
AgnosticModsVacant_not_inserting(t, d, p) ==
  /\ UNCHANGED << code_call, layouts, strings, probe_log, build_log >>
  /\ dead_key' = p.latch.pending
  /\ built' = Append(built, [id |-> active[t], thread |-> t])
  /\ entry' = [entry EXCEPT ![t] = "vacant"]
  /\ mods_call' = [mods_call EXCEPT ![t] = ModsCall(t, p.layout)]

\* get_agnostic_mods when get_current_layout finds the entry vacant: p the
\* result of prepare_layout under the events d
AgnosticModsVacant(t, d, p) ==
  /\ layouts' = Put(layouts, active[t], p.layout)
  /\ strings' = p.strings
  /\ dead_key' = p.latch.pending
  /\ probe_log' = Put(probe_log, active[t], p.log)
  /\ build_log' = Put(build_log, active[t], [panicked |-> p.panicked, steps |-> p.steps,
                      first_pass |-> p.first_pass, interrupt |-> d])
  /\ built' = Append(built, [id |-> active[t], thread |-> t])
  /\ entry' = [entry EXCEPT ![t] = "vacant"]
  /\ mods_call' = [mods_call EXCEPT ![t] = ModsCall(t, p.layout)]

\* LayoutCache::get_agnostic_mods (lines 256-274) called through the guard:
\* get_current_layout, then the modifier keys read from the OS
GetAgnosticMods(t) ==
  /\ pc[t] \in { "locked", "mods" }
  /\ pc' = [pc EXCEPT ![t] = "mods"]
  /\ locale_id' = [locale_id EXCEPT ![t] = active[t]]
  /\ IF IsOccupied(layouts, active[t])
     THEN /\ entry' = [entry EXCEPT ![t] = "occupied"]
          /\ mods_call' = [mods_call EXCEPT ![t] = ModsCall(t, layouts[active[t]])]
          /\ UNCHANGED << code_call, layouts, strings, dead_key, probe_log, build_log, built >>
     ELSE \E d \in Interrupts(t, active[t]) :
            AgnosticModsVacant(t, d, prepare_layout(strings, KeyboardState(dead_key, d), active[t]))
  /\ UNCHANGED << code_call, ctrl_call, frame_call, kbd_call, str_call, vkey_call, pressed, installed, active, mutex, call >>

\* the user presses or releases a modifier key
PressKey(vkey) ==
  /\ vkey \notin pressed
  /\ pressed' = pressed \cup { vkey }
  /\ UNCHANGED << code_call, ctrl_call, frame_call, kbd_call, str_call, vkey_call, mods_call, installed, active, dead_key, mutex, layouts, strings, pc,
                  locale_id, entry, call, built, probe_log, build_log >>

ReleaseKey(vkey) ==
  /\ vkey \in pressed
  /\ pressed' = pressed \ { vkey }
  /\ UNCHANGED << code_call, ctrl_call, frame_call, kbd_call, str_call, vkey_call, mods_call, installed, active, dead_key, mutex, layouts, strings, pc,
                  locale_id, entry, call, built, probe_log, build_log >>

\* the MutexGuard is dropped
Unlock(t) ==
  /\ pc[t] \in { "ready", "mods" }
  /\ mutex' = NoThread
  /\ pc' = [pc EXCEPT ![t] = "idle"]
  /\ locale_id' = [locale_id EXCEPT ![t] = 0]
  /\ entry' = [entry EXCEPT ![t] = "none"]
  /\ mods_call' = [mods_call EXCEPT ![t] = NoModsCall]
  /\ UNCHANGED << code_call, ctrl_call, frame_call, kbd_call, str_call, vkey_call, pressed, installed, active, dead_key, layouts, strings, call, built,
                  probe_log, build_log >>

Next ==
  \/ ResetDeadKeys
  \/ \E t \in Threads :
    \/ \E id \in Hkls : SwitchLayout(t, id)
    \/ Lock(t)
    \/ Lookup(t)
    \/ Build(t)
    \/ \E n \in BOOLEAN : GetKey(t, 0, n, << VK_MENU, 57400, KC("AltRight") >>)
    \/ TakeKey(t)
    \/ GetAgnosticMods(t)
    \/ Unlock(t)

Spec == Init /\ [][Next]_vars

(***************************************************************************)
(* The program on a machine with a single installed layout, one thread      *)
(* resolving every key event under every modifier combination and NumLock   *)
(* state while the user types into the window of the other thread.  The     *)
(* layouts are those with full keyboards and no dead key and the compact    *)
(* ones.                                                                    *)
(***************************************************************************)
InitKeys ==
  /\ installed \in { { id } : id \in Hkls \ { HKL_DE_DE, HKL_FR_FR } }
  /\ active \in [Threads -> installed]
  /\ dead_key \in StartPending(installed)
  /\ mutex = NoThread
  /\ layouts = EmptyMap
  /\ strings = {}
  /\ pc = [t \in Threads |-> "idle"]
  /\ locale_id = [t \in Threads |-> 0]
  /\ entry = [t \in Threads |-> "none"]
  /\ call = [t \in Threads |-> NoCall]
  /\ pressed = {}
  /\ mods_call = [t \in Threads |-> NoModsCall]
  /\ str_call = NoStrCall
  /\ vkey_call = NoVkeyCall
  /\ kbd_call = NoKbdCall
  /\ ctrl_call = NoCtrlCall
  /\ frame_call = NoFrameCall
  /\ code_call = NoCodeCall
  /\ built = << >>
  /\ probe_log = EmptyMap
  /\ build_log = EmptyMap

NextKeys ==
  \/ ResetDeadKeys
  \/ \E t \in { 1 } :
    \/ Lock(t)
    \/ Lookup(t)
    \/ Build(t)
    \/ \E m \in 0 .. FLAGS_END, n \in BOOLEAN, ev \in AllKeyEvents : GetKey(t, m, n, ev)
    \/ TakeKey(t)
    \/ Unlock(t)

SpecKeys == InitKeys /\ [][NextKeys]_vars

(***************************************************************************)
(* The program on a machine with a single installed layout, any of the      *)
(* eight, constructing the layout while dead keys are typed and reset       *)
(* before and during the construction.                                      *)
(***************************************************************************)
InitBuild ==
  /\ installed \in { { id } : id \in Hkls }
  /\ active \in [Threads -> installed]
  /\ dead_key = NoDead
  /\ mutex = NoThread
  /\ layouts = EmptyMap
  /\ strings = {}
  /\ pc = [t \in Threads |-> "idle"]
  /\ locale_id = [t \in Threads |-> 0]
  /\ entry = [t \in Threads |-> "none"]
  /\ call = [t \in Threads |-> NoCall]
  /\ pressed = {}
  /\ mods_call = [t \in Threads |-> NoModsCall]
  /\ str_call = NoStrCall
  /\ vkey_call = NoVkeyCall
  /\ kbd_call = NoKbdCall
  /\ ctrl_call = NoCtrlCall
  /\ frame_call = NoFrameCall
  /\ code_call = NoCodeCall
  /\ built = << >>
  /\ probe_log = EmptyMap
  /\ build_log = EmptyMap

NextBuild ==
  \/ ResetDeadKeys
  \/ \E t \in Threads :
    \/ TypeDeadKey(t)
    \/ Lock(t)
    \/ Lookup(t)
    \/ Build(t)
    \/ Unlock(t)

SpecBuild == InitBuild /\ [][NextBuild]_vars

(***************************************************************************)
(* The program reading the modifiers: threads that lock LAYOUT_CACHE and    *)
(* call get_agnostic_mods while the user presses and releases Shift,         *)
(* Control and right Alt, on a machine with a single installed layout, one  *)
(* with AltGr (es-ES) or one without (it-IT).                               *)
(***************************************************************************)
InitMods ==
  /\ installed \in { { HKL_ES_ES }, { HKL_IT_IT } }
  /\ active \in [Threads -> installed]
  /\ dead_key \in StartPending(installed)
  /\ mutex = NoThread
  /\ layouts = EmptyMap
  /\ strings = {}
  /\ pc = [t \in Threads |-> "idle"]
  /\ locale_id = [t \in Threads |-> 0]
  /\ entry = [t \in Threads |-> "none"]
  /\ call = [t \in Threads |-> NoCall]
  /\ pressed = {}
  /\ mods_call = [t \in Threads |-> NoModsCall]
  /\ str_call = NoStrCall
  /\ vkey_call = NoVkeyCall
  /\ kbd_call = NoKbdCall
  /\ ctrl_call = NoCtrlCall
  /\ frame_call = NoFrameCall
  /\ code_call = NoCodeCall
  /\ built = << >>
  /\ probe_log = EmptyMap
  /\ build_log = EmptyMap

NextMods ==
  \/ ResetDeadKeys
  \/ \E vkey \in { VK_SHIFT, VK_CONTROL, VK_RMENU } : PressKey(vkey) \/ ReleaseKey(vkey)
  \/ \E t \in Threads :
       \/ Lock(t)
       \/ GetAgnosticMods(t)
       \/ Unlock(t)

SpecMods == InitMods /\ [][NextMods]_vars

(***************************************************************************)
(* get_or_insert_str applied on its own to a string set that starts empty,  *)
(* as LayoutCache::strings does.                                            *)
(***************************************************************************)
\* the candidates: "", "/", "a", "A", "ab"
Candidates == { << >>, << 47 >>, << 97 >>, << 65 >>, << 97, 98 >> }

\* the state of a program that has made no call
Quiescent ==
  /\ installed \in { { HKL_EN_US } }
  /\ active \in [Threads -> installed]
  /\ dead_key = NoDead
  /\ mutex = NoThread
  /\ layouts = EmptyMap
  /\ strings = {}
  /\ pc = [t \in Threads |-> "idle"]
  /\ locale_id = [t \in Threads |-> 0]
  /\ entry = [t \in Threads |-> "none"]
  /\ call = [t \in Threads |-> NoCall]
  /\ pressed = {}
  /\ mods_call = [t \in Threads |-> NoModsCall]
  /\ str_call = NoStrCall
  /\ built = << >>
  /\ probe_log = EmptyMap
  /\ build_log = EmptyMap

\* r the result of get_or_insert_str(strings, candidate)
InsertStrResult(candidate, r) ==
  /\ strings' = r.strings
  /\ str_call' = [made |-> TRUE, candidate |-> candidate, before |-> strings, ref |-> r.ref]

InsertStr(candidate) ==
  /\ InsertStrResult(candidate, get_or_insert_str(strings, candidate))
  /\ UNCHANGED << code_call, ctrl_call, frame_call, kbd_call, vkey_call, pressed, mods_call, installed, active, dead_key, mutex, layouts,
                  pc, locale_id, entry, call, built, probe_log, build_log >>

InitStr ==
  /\ Quiescent
  /\ ctrl_call = NoCtrlCall
  /\ frame_call = NoFrameCall
  /\ code_call = NoCodeCall
  /\ vkey_call = NoVkeyCall
  /\ kbd_call = NoKbdCall

NextStr == \E candidate \in Candidates : InsertStr(candidate)

SpecStr == InitStr /\ [][NextStr]_vars

(***************************************************************************)
(* vkey_to_non_char_key applied on its own to every vkey of 0..255, every   *)
(* layout of the model and both has_alt_graph values.                       *)
(***************************************************************************)
\* the arguments of the call to come; the native codes passed: none, and the
\* scan code of the A key
VkeyArguments ==
  [made : { FALSE }, vkey : 0 .. 255, native_code : { NativeUnidentified, NativeWindows(30) }, hkl : Hkls,
   has_alt_graph : BOOLEAN, result : { Unidentified(NativeUnidentified) }]

\* the numpad digits converted to their characters
ApplyVkeyToNonCharKey_numpad_characters ==
  /\ ~vkey_call.made
  /\ vkey_call' = [vkey_call EXCEPT
       !.made = TRUE,
       !.result = IF vkey_call.vkey \in VK_NUMPAD0 .. VK_NUMPAD9
                  THEN Character([s |-> << 48 + vkey_call.vkey - VK_NUMPAD0 >>, addr |-> 0])
                  ELSE vkey_to_non_char_key(vkey_call.vkey, vkey_call.native_code,
                                            vkey_call.hkl, vkey_call.has_alt_graph)]
  /\ UNCHANGED << code_call, ctrl_call, frame_call, kbd_call, str_call, pressed, mods_call, installed, active, dead_key, mutex, layouts,
                  strings, pc, locale_id, entry, call, built, probe_log, build_log >>

\* the left Alt key following has_alt_graph as the right one does
ApplyVkeyToNonCharKey_left_alt_graph ==
  /\ ~vkey_call.made
  /\ vkey_call' = [vkey_call EXCEPT
       !.made = TRUE,
       !.result = IF vkey_call.vkey = VK_LMENU /\ vkey_call.has_alt_graph
                  THEN Named("AltGraph")
                  ELSE vkey_to_non_char_key(vkey_call.vkey, vkey_call.native_code,
                                            vkey_call.hkl, vkey_call.has_alt_graph)]
  /\ UNCHANGED << code_call, ctrl_call, frame_call, kbd_call, str_call, pressed, mods_call, installed, active, dead_key, mutex, layouts,
                  strings, pc, locale_id, entry, call, built, probe_log, build_log >>

ApplyVkeyToNonCharKey ==
  /\ ~vkey_call.made
  /\ vkey_call' = [vkey_call EXCEPT
       !.made = TRUE,
       !.result = vkey_to_non_char_key(vkey_call.vkey, vkey_call.native_code, vkey_call.hkl,
                                       vkey_call.has_alt_graph)]
  /\ UNCHANGED << code_call, ctrl_call, frame_call, kbd_call, str_call, pressed, mods_call, installed, active, dead_key, mutex, layouts,
                  strings, pc, locale_id, entry, call, built, probe_log, build_log >>

InitVkey ==
  /\ Quiescent
  /\ ctrl_call = NoCtrlCall
  /\ frame_call = NoFrameCall
  /\ code_call = NoCodeCall
  /\ vkey_call \in VkeyArguments
  /\ kbd_call = NoKbdCall

NextVkey == ApplyVkeyToNonCharKey

SpecVkey == InitVkey /\ [][NextVkey]_vars

(***************************************************************************)
(* apply_to_kbd_state applied on its own to each of the 16 modifier         *)
(* combinations and a key-state array left by earlier use.                  *)
(***************************************************************************)
\* the vkeys apply_to_kbd_state and active_modifiers touch with bit 0x80
ModifierKeyVkeys ==
  { VK_SHIFT, VK_LSHIFT, VK_RSHIFT, VK_CONTROL, VK_LCONTROL, VK_RCONTROL,
    VK_MENU, VK_LMENU, VK_RMENU }

\* the settings of the keys apply_to_kbd_state has no business with: all
\* released, or all pressed and toggled (bits 0x80 and 0x01)
RestSettings == { 0, 129 }

\* the array with the vkeys of down pressed, VK_CAPITAL holding caps, every
\* other entry holding rest and the Shift, Control and Alt entries the
\* toggle bit of rest
KeyStateOf(down, caps, rest) ==
  [vk \in 0 .. 255 |-> IF vk = VK_CAPITAL THEN caps
                       ELSE IF vk \in ModifierKeyVkeys
                            THEN (IF vk \in down THEN 128 ELSE 0) + (rest % 2)
                            ELSE rest]

\* the arrays apply_to_kbd_state is applied to
PriorKeyStates ==
  { KeyStateOf(down, caps, rest) :
      down \in SUBSET ModifierKeyVkeys, caps \in { 0, 1, 128, 129 }, rest \in RestSettings }

KbdArguments ==
  [made : { FALSE }, self : 0 .. FLAGS_END - 1, before : PriorKeyStates,
   after : { ZeroKeyState }]

ApplyToKbdState ==
  /\ ~kbd_call.made
  /\ kbd_call' = [kbd_call EXCEPT
       !.made = TRUE,
       !.after = apply_to_kbd_state(kbd_call.self, kbd_call.before)]
  /\ UNCHANGED << code_call, ctrl_call, frame_call, str_call, vkey_call, pressed, mods_call, installed, active, dead_key, mutex,
                  layouts, strings, pc, locale_id, entry, call, built, probe_log, build_log >>

InitKbd ==
  /\ Quiescent
  /\ ctrl_call = NoCtrlCall
  /\ frame_call = NoFrameCall
  /\ code_call = NoCodeCall
  /\ vkey_call = NoVkeyCall
  /\ kbd_call \in KbdArguments

NextKbd == ApplyToKbdState

SpecKbd == InitKbd /\ [][NextKbd]_vars

(***************************************************************************)
(* remove_only_ctrl applied on its own to a set of flags, and again to its  *)
(* own result.                                                              *)
(***************************************************************************)
\* the sets of the five flags SHIFT, CONTROL, ALT, CAPS_LOCK, FLAGS_END
FlagSets == 0 .. 2 * FLAGS_END - 1

\* the number of times the operation is applied in a row
MaxApplications == 3

CtrlArguments ==
  { [applied |-> 0, self |-> m, previous |-> m, result |-> m] : m \in FlagSets }

RemoveOnlyCtrl ==
  /\ ctrl_call.applied < MaxApplications
  /\ ctrl_call' = [ctrl_call EXCEPT
       !.applied = @ + 1,
       !.previous = ctrl_call.result,
       !.result = remove_only_ctrl(ctrl_call.result)]
  /\ UNCHANGED << code_call, frame_call, kbd_call, str_call, vkey_call, pressed, mods_call, installed, active, dead_key,
                  mutex, layouts, strings, pc, locale_id, entry, call, built, probe_log, build_log >>

InitCtrl ==
  /\ Quiescent
  /\ vkey_call = NoVkeyCall
  /\ kbd_call = NoKbdCall
  /\ frame_call = NoFrameCall
  /\ code_call = NoCodeCall
  /\ ctrl_call \in CtrlArguments

NextCtrl == RemoveOnlyCtrl

SpecCtrl == InitCtrl /\ [][NextCtrl]_vars

(***************************************************************************)
(* get_frame_extents_heuristic applied on its own to the answers of an X    *)
(* server.                                                                  *)
(***************************************************************************)
\* y coordinates: the ends of i16, a window above the screen, the origin and
\* a title bar height
YCoordinates == { I16_MIN, -1, 0, 28, I16_MAX }

FrameArguments ==
  [made : { FALSE }, same_as_child : BOOLEAN, top_level : { "None", "SomeTrue", "SomeFalse" },
   ewmh : { NoExtents, SomeExtents(FrameExtents_new(1, 1, 28, 1)) },
   inner_y_rel_root : YCoordinates, width : { 800 }, height : { 600 }, border : { 0, 2 },
   outer_y : YCoordinates, outer_width : { 800, 802 }, outer_height : { 600, 629 },
   result : { NoFrameCall.result }]

GetFrameExtentsHeuristic ==
  /\ ~frame_call.made
  /\ frame_call' = [frame_call EXCEPT
       !.made = TRUE,
       !.result = get_frame_extents_heuristic(frame_call)]
  /\ UNCHANGED << code_call, ctrl_call, kbd_call, str_call, vkey_call, pressed, mods_call, installed, active, dead_key,
                  mutex, layouts, strings, pc, locale_id, entry, call, built, probe_log, build_log >>

InitFrame ==
  /\ Quiescent
  /\ vkey_call = NoVkeyCall
  /\ kbd_call = NoKbdCall
  /\ ctrl_call = NoCtrlCall
  /\ code_call = NoCodeCall
  /\ frame_call \in FrameArguments

NextFrame == GetFrameExtentsHeuristic

SpecFrame == InitFrame /\ [][NextFrame]_vars


(***************************************************************************)
(* The helpers of the numlock_off_keys loop (lines 303-323) applied on      *)
(* their own: is_numpad_specific to a vkey, keycode_to_vkey to a KeyCode    *)
(* and a layout, and the body of the loop to a vkey and the scan code       *)
(* MapVirtualKeyExW answers for it.                                         *)
(***************************************************************************)
\* the KeyCodes with an arm of their own in keycode_to_vkey that gives a
\* vkey, three of those that give 0, and an unidentified one
KeyCodeArguments ==
  { KC(n) : n \in
    { "AltLeft", "AltRight", "Backspace", "CapsLock", "ContextMenu",
      "ControlLeft", "ControlRight", "Enter", "SuperLeft", "SuperRight",
      "ShiftLeft", "ShiftRight", "Space", "Tab", "Convert", "KanaMode",
      "Lang1", "Lang2", "Lang3", "NonConvert", "Delete", "End", "Help", "Home",
      "Insert", "PageDown", "PageUp", "ArrowDown", "ArrowLeft", "ArrowRight",
      "ArrowUp", "NumLock", "Numpad0", "Numpad1", "Numpad2", "Numpad3",
      "Numpad4", "Numpad5", "Numpad6", "Numpad7", "Numpad8", "Numpad9",
      "NumpadAdd", "NumpadBackspace", "NumpadClear", "NumpadComma",
      "NumpadDecimal", "NumpadDivide", "NumpadEnter", "NumpadMultiply",
      "NumpadSubtract", "Escape", "PrintScreen", "ScrollLock", "Pause",
      "BrowserBack", "BrowserFavorites", "BrowserForward", "BrowserHome",
      "BrowserRefresh", "BrowserSearch", "BrowserStop", "LaunchApp1",
      "LaunchApp2", "LaunchMail", "MediaPlayPause", "MediaSelect", "MediaStop",
      "MediaTrackNext", "MediaTrackPrevious", "AudioVolumeDown",
      "AudioVolumeMute", "AudioVolumeUp", "Select", "F1", "F2", "F3", "F4",
      "F5", "F6", "F7", "F8", "F9", "F10", "F11", "F12", "F13", "F14", "F15",
      "F16", "F17", "F18", "F19", "F20", "F21", "F22", "F23", "F24", "KeyA",
      "Slash", "Digit2" } } \cup { KCUnidentified(0) }

\* the scan codes passed: of the Shift keys, of numpad keys, of the navigation
\* cluster and of a letter, and "no mapping"
CodeArguments ==
  { [NoCodeCall EXCEPT !.op = "is_numpad_specific", !.vk = vk] : vk \in 0 .. 255 }
  \cup { [NoCodeCall EXCEPT !.op = "keycode_to_vkey", !.keycode = kc, !.hkl = id] :
            kc \in KeyCodeArguments, id \in { HKL_EN_US, HKL_JA_JP, HKL_KO_KR } }
  \cup { [NoCodeCall EXCEPT !.op = "numlock_off_mapped", !.scancode = sc, !.vk = vk,
                             !.hkl = HKL_EN_US] :
            sc \in { 0, 30, 42, 54, 55, 72, 83, 57397, 57416 },
            vk \in { VK_SHIFT, VK_LSHIFT, VK_RSHIFT, VK_UP, VK_DELETE, VK_CLEAR,
                     VK_NUMPAD8, VK_DECIMAL, VK_MULTIPLY, VK_DIVIDE, 65 } }

IsNumpadSpecific ==
  /\ ~code_call.made
  /\ code_call.op = "is_numpad_specific"
  /\ code_call' = [code_call EXCEPT
       !.made = TRUE,
       !.numpad_specific = is_numpad_specific(code_call.vk)]
  /\ UNCHANGED << ctrl_call, frame_call, kbd_call, str_call, vkey_call, pressed, mods_call, installed, active, dead_key,
                  mutex, layouts, strings, pc, locale_id, entry, call, built, probe_log, build_log >>

KeycodeToVkey ==
  /\ ~code_call.made
  /\ code_call.op = "keycode_to_vkey"
  /\ code_call' = [code_call EXCEPT
       !.made = TRUE,
       !.map_vkey = keycode_to_vkey(code_call.keycode, code_call.hkl)]
  /\ UNCHANGED << ctrl_call, frame_call, kbd_call, str_call, vkey_call, pressed, mods_call, installed, active, dead_key,
                  mutex, layouts, strings, pc, locale_id, entry, call, built, probe_log, build_log >>

NumlockOffMapped ==
  /\ ~code_call.made
  /\ code_call.op = "numlock_off_mapped"
  /\ code_call' = [code_call EXCEPT
       !.made = TRUE,
       !.off = numlock_off_mapped(code_call.scancode, code_call.vk, code_call.hkl, EmptyMap)]
  /\ UNCHANGED << ctrl_call, frame_call, kbd_call, str_call, vkey_call, pressed, mods_call, installed, active, dead_key,
                  mutex, layouts, strings, pc, locale_id, entry, call, built, probe_log, build_log >>

InitCode ==
  /\ Quiescent
  /\ vkey_call = NoVkeyCall
  /\ kbd_call = NoKbdCall
  /\ ctrl_call = NoCtrlCall
  /\ frame_call = NoFrameCall
  /\ code_call \in CodeArguments

NextCode == IsNumpadSpecific \/ KeycodeToVkey \/ NumlockOffMapped

SpecCode == InitCode /\ [][NextCode]_vars

(***************************************************************************)
(* Properties                                                               *)
(***************************************************************************)
\* the prepare_layout runs made for the layout id
RunsFor(id) == { i \in 1 .. Len(built) : built[i].id = id }

\* C1: whatever the interleaving of get_current_layout calls and layout
\* switches, prepare_layout has run at most once per layout id, the cache
\* holds exactly the ids it ran for (a run happens only on a miss and its
\* Layout is stored), and a call that found its id cached holds the stored
\* Layout with no run made for it by that call.
C1_BuiltAtMostOncePerId ==
  /\ \A id \in Hkls : Cardinality(RunsFor(id)) <= 1
  /\ DOMAIN layouts = { built[i].id : i \in 1 .. Len(built) }
  /\ \A t \in Threads :
       entry[t] = "occupied" =>
         /\ locale_id[t] \in DOMAIN layouts
         /\ Cardinality(RunsFor(locale_id[t])) = 1

\* C1 witness: layout A was built, then B, and a later call made after a
\* switch back to A found A cached.
C1_SwitchBackHits ==
  \E t \in Threads :
    /\ Len(built) = 2
    /\ pc[t] = "ready"
    /\ entry[t] = "occupied"
    /\ locale_id[t] = built[1].id
    /\ built[2].id # built[1].id

\* C2: the guard is held by at most one thread, only the holder is inside
\* get_current_layout or uses its Layout, no layout id is constructed twice,
\* and a thread that holds a Layout holds the completed one, constructed
\* exactly once (by itself on a miss, by an earlier holder on a hit).
C2_ConstructedExactlyOnce ==
  /\ \A t \in Threads : pc[t] # "idle" <=> mutex = t
  /\ \A i, j \in 1 .. Len(built) : built[i].id = built[j].id => i = j
  /\ \A t \in Threads :
       pc[t] \in { "ready", "resolved" } =>
         /\ locale_id[t] \in DOMAIN layouts
         /\ layouts[locale_id[t]].hkl = locale_id[t]
         /\ \E i \in 1 .. Len(built) :
              /\ built[i].id = locale_id[t]
              /\ (entry[t] = "vacant" => built[i].thread = t)

\* C2 witness: a thread got a cache hit on a layout another thread built.
C2_LaterThreadHits ==
  \E t, u \in Threads :
    /\ t # u
    /\ pc[u] = "ready"
    /\ entry[u] = "occupied"
    /\ \E i \in 1 .. Len(built) : built[i] = [id |-> locale_id[u], thread |-> t]

\* the Layout a recorded get_key call was made on
CallLayout(c) == layouts[c.hkl]

\* the arguments of a recorded get_key call resolve at step 1
ResolvesByVkey(c) ==
  /\ c.vkey # VK_MENU
  /\ ~IsUnidentified(vkey_to_non_char_key(c.vkey, NativeWindows(c.scancode), c.hkl,
                                          CallLayout(c).has_alt_graph))

\* ... at step 2
ResolvesByNumLock(c) ==
  IF c.num_lock_on THEN c.vkey \in DOMAIN CallLayout(c).numlock_on_keys
  ELSE c.vkey \in DOMAIN CallLayout(c).numlock_off_keys

\* ... at step 3
ResolvesByTable(c) ==
  /\ c.mods \in DOMAIN CallLayout(c).keys
  /\ c.keycode \in DOMAIN CallLayout(c).keys[c.mods]

\* C3: every get_key call returns the result of the first step that
\* resolves: (1) the non-character key of a vkey other than VK_MENU when it
\* is a definite key, whatever mods, num_lock_on, keycode and the tables are;
\* (2) else the entry of vkey in numlock_on_keys when NumLock is on, in
\* numlock_off_keys when it is off; (3) else keys[mods][keycode]; (4) else
\* Unidentified(Windows(scancode)).
C3_StrictPrecedence ==
  \A t \in Threads :
    call[t].made =>
      LET c == call[t]
      IN CASE ResolvesByVkey(c) ->
                c.result = vkey_to_non_char_key(c.vkey, NativeWindows(c.scancode), c.hkl,
                                                CallLayout(c).has_alt_graph)
           [] ~ResolvesByVkey(c) /\ ResolvesByNumLock(c) ->
                c.result = IF c.num_lock_on THEN CallLayout(c).numlock_on_keys[c.vkey]
                           ELSE CallLayout(c).numlock_off_keys[c.vkey]
           [] ~ResolvesByVkey(c) /\ ~ResolvesByNumLock(c) /\ ResolvesByTable(c) ->
                c.result = CallLayout(c).keys[c.mods][c.keycode]
           [] OTHER -> c.result = Unidentified(NativeWindows(c.scancode))

\* C3 witness: a call resolved by the NumLock-off map returned its entry
\* although keys[mods][keycode] holds a different Key, and the NumLock-on
\* map holds yet another entry for the same vkey.
C3_NumLockMapBeforeTable ==
  \E t \in Threads :
    /\ call[t].made
    /\ ~ResolvesByVkey(call[t])
    /\ ~call[t].num_lock_on
    /\ ResolvesByNumLock(call[t])
    /\ ResolvesByTable(call[t])
    /\ call[t].vkey \in DOMAIN CallLayout(call[t]).numlock_on_keys
    /\ call[t].result # CallLayout(call[t]).keys[call[t].mods][call[t].keycode]
    /\ call[t].result # CallLayout(call[t]).numlock_on_keys[call[t].vkey]
    /\ call[t].result = CallLayout(call[t]).numlock_off_keys[call[t].vkey]

\* the 16 modifier combinations
ModifierCombinations == 0 .. FLAGS_END - 1

\* the KeyCode kc yields a Character under {Control, Alt} and a Character of
\* different content under no modifiers, in the tables of layout
DiffersUnderControlAlt(layout, kc) ==
  /\ 0 \in DOMAIN layout.keys
  /\ CONTROL + ALT \in DOMAIN layout.keys
  /\ kc \in DOMAIN layout.keys[0]
  /\ kc \in DOMAIN layout.keys[CONTROL + ALT]
  /\ IsCharacter(layout.keys[0][kc])
  /\ IsCharacter(layout.keys[CONTROL + ALT][kc])
  /\ layout.keys[CONTROL + ALT][kc].s # layout.keys[0][kc].s

\* C4: for every constructed layout, has_alt_graph is true if and only if
\* some KeyCode's entry in the {Control, Alt} table is a Character whose
\* content differs from the Character that KeyCode has in the {} table.
C4_AltGraphIffSomeKeyCodeDiffers ==
  \A id \in DOMAIN layouts :
    layouts[id].has_alt_graph <=>
      \E kc \in DOMAIN layouts[id].keys[0] : DiffersUnderControlAlt(layouts[id], kc)

\* C4 witness: a layout with a KeyCode whose Control+Alt character differs
\* from its unmodified character was constructed with has_alt_graph set.
C4_AltGraphDetected ==
  \E id \in DOMAIN layouts :
    /\ layouts[id].has_alt_graph
    /\ DiffersUnderControlAlt(layouts[id], KC("Digit2"))

\* the right-Alt get_key calls of the claim: vkey VK_RMENU, or the ambiguous
\* VK_MENU with KeyCode AltRight when the table of the combination holds it
IsRightAltCall(c) ==
  /\ c.made
  /\ c.mods \in ModifierCombinations
  /\ \/ c.vkey = VK_RMENU
     \/ /\ c.vkey = VK_MENU
        /\ c.keycode = KC("AltRight")
        /\ c.mods \in DOMAIN CallLayout(c).keys
        /\ KC("AltRight") \in DOMAIN CallLayout(c).keys[c.mods]

\* C5: get_key for right-Alt returns AltGraph under each of the 16 modifier
\* combinations and both NumLock states when the layout's has_alt_graph is
\* true, and Alt in all of them when it is false.
C5_RightAltFollowsAltGraph ==
  \A t \in Threads :
    IsRightAltCall(call[t]) =>
      call[t].result = IF CallLayout(call[t]).has_alt_graph
                       THEN Named("AltGraph") ELSE Named("Alt")

\* C5 witness: the ambiguous VK_MENU with KeyCode AltRight resolved to
\* AltGraph with no modifier active.
C5_UnknownAltGivesAltGraph ==
  \E t \in Threads :
    /\ IsRightAltCall(call[t])
    /\ call[t].vkey = VK_MENU
    /\ call[t].mods = 0
    /\ CallLayout(call[t]).has_alt_graph
    /\ call[t].result = Named("AltGraph")

\* C6: in every constructed layout all 16 modifier-combination tables exist
\* and each one that contains KeyCode AltRight maps it to AltGraph when
\* has_alt_graph is true and to Alt when it is false.
C6_AltRightRelabelledEverywhere ==
  \A id \in DOMAIN layouts :
    \A m \in ModifierCombinations :
      /\ m \in DOMAIN layouts[id].keys
      /\ KC("AltRight") \in DOMAIN layouts[id].keys[m] =>
           layouts[id].keys[m][KC("AltRight")] =
             IF layouts[id].has_alt_graph THEN Named("AltGraph") ELSE Named("Alt")

\* C6 witness: a layout with has_alt_graph true whose {} table, built before
\* {Control, Alt} was processed, maps AltRight to AltGraph.
C6_EarlierTableRelabelled ==
  \E id \in DOMAIN layouts :
    /\ layouts[id].has_alt_graph
    /\ KC("AltRight") \in DOMAIN layouts[id].keys[0]
    /\ layouts[id].keys[0][KC("AltRight")] = Named("AltGraph")
    /\ KC("AltRight") \in DOMAIN layouts[id].keys[CONTROL + ALT + CAPS_LOCK]

\* the Keys stored in numlock_on_keys and in the modifier tables of layout
StoredKeys(layout) ==
  { layout.numlock_on_keys[v] : v \in DOMAIN layout.numlock_on_keys }
  \cup UNION { { layout.keys[m][kc] : kc \in DOMAIN layout.keys[m] } : m \in DOMAIN layout.keys }

\* the Key::Character values stored in the tables of the cached layouts
StoredCharacters ==
  { k \in UNION { StoredKeys(layouts[id]) : id \in DOMAIN layouts } : IsCharacter(k) }

\* C7: after any sequence of constructions sharing the cache, two stored
\* Key::Character values of equal content refer to the same string instance,
\* and every stored Character string is a string of the shared interner.
C7_EqualContentSameInstance ==
  /\ \A k1, k2 \in StoredCharacters : k1.s = k2.s => k1.addr = k2.addr
  /\ \A k \in StoredCharacters : [s |-> k.s, addr |-> k.addr] \in strings

\* C7 witness: two layouts are cached and a probed string of the second one
\* was already interned by the first.
C7_StringSharedAcrossLayouts ==
  /\ Len(built) = 2
  /\ \E v \in DOMAIN layouts[built[2].id].numlock_on_keys :
       \E kc \in DOMAIN layouts[built[1].id].keys[0] :
         /\ IsCharacter(layouts[built[1].id].keys[0][kc])
         /\ layouts[built[2].id].numlock_on_keys[v] = layouts[built[1].id].keys[0][kc]

\* C8: after construction all 16 modifier-combination tables exist and have
\* the same set of KeyCodes as the no-modifier table.
C8_SameKeyCodesInAllTables ==
  \A id \in DOMAIN layouts :
    /\ DOMAIN layouts[id].keys = ModifierCombinations
    /\ \A m \in ModifierCombinations :
         DOMAIN layouts[id].keys[m] = DOMAIN layouts[id].keys[0]

\* C8 witness: a KeyCode that is a Character with no modifier has an
\* Unidentified entry under Control, where the probe yields nothing.
C8_UnidentifiedEntryKept ==
  \E id \in DOMAIN layouts :
    /\ IsCharacter(layouts[id].keys[0][KC("Slash")])
    /\ IsUnidentified(layouts[id].keys[CONTROL][KC("Slash")])
    /\ layouts[id].keys[CONTROL][KC("Slash")].code = 53

\* the dead key pending when the construction of layout id made the
\* all-modifiers-released probe of vkey v, the first probe of v
NumpadProbeLatch(v, log) ==
  log[CHOOSE i \in 1 .. Len(log) :
        log[i].vkey = v /\ \A j \in 1 .. i - 1 : log[j].vkey # v].latch

\* the result of the all-modifiers-released probe of vkey v in the
\* construction of layout id
NumpadProbe(v, id) ==
  to_unicode_string(KeyboardState(NumpadProbeLatch(v, probe_log[id]), NoInterrupt),
                    ZeroKeyState, v,
                    MapVirtualKeyExW(v, id), id).result

\* the canonical numpad vkeys
NumpadVkeySet == { NUMPAD_VKEYS[i] : i \in 1 .. Len(NUMPAD_VKEYS) }

\* u is a vkey that is not numpad-specific, has a definite named key and maps
\* to the numpad scan code whose canonical vkey is v, on layout id
AliasesNumpad(u, v, id) ==
  /\ ~is_numpad_specific(u)
  /\ MapVirtualKeyExW(u, id) # 0
  /\ from_scancode(MapVirtualKeyExW(u, id)) \in NUMPAD_KEYCODES
  /\ keycode_to_vkey(from_scancode(MapVirtualKeyExW(u, id)), id) = v
  /\ ~IsUnidentified(vkey_to_non_char_key(u, NativeWindows(MapVirtualKeyExW(u, id)), id, FALSE))

\* C9: for a canonical numpad vkey v, a get_key call with NumLock on returns
\* Character(s) under every modifier combination when the all-modifiers-
\* released probe of v settles to s, and a call with NumLock off returns the
\* named key of the navigation vkey u that maps to v's scan code, the Key
\* get_key returns for u itself.
C9_NumpadFollowsNumLock ==
  \A t \in Threads :
    (call[t].made /\ call[t].vkey \in NumpadVkeySet) =>
      LET c == call[t]
      IN /\ (c.num_lock_on /\ NumpadProbe(c.vkey, c.hkl).kind = "Str") =>
              /\ IsCharacter(c.result)
              /\ c.result.s = NumpadProbe(c.vkey, c.hkl).s
         /\ ~c.num_lock_on =>
              \A u \in 0 .. 255 :
                AliasesNumpad(u, c.vkey, c.hkl) =>
                  /\ c.result = vkey_to_non_char_key(u, NativeWindows(MapVirtualKeyExW(u, c.hkl)),
                                                     c.hkl, FALSE)
                  /\ c.result = get_key(CallLayout(c), c.mods, c.num_lock_on, u,
                                        MapVirtualKeyExW(u, c.hkl),
                                        from_scancode(MapVirtualKeyExW(u, c.hkl)))

\* the vkeys that alias the numpad scan code of v on layout id
NumpadAliases(v, id) == { u \in 0 .. 255 : AliasesNumpad(u, v, id) }

\* the largest element of a non-empty set of vkeys, the last one the loops
\* of the construction visit
HighestVkey(vkeys) == CHOOSE vk \in vkeys : \A other \in vkeys : other <= vk

\* C9 (amended): for a canonical numpad vkey v, a get_key call with NumLock
\* on returns Character(s) under every modifier combination when the
\* all-modifiers-released probe of v settles to s, and a call with NumLock
\* off returns the named key of the highest navigation vkey u that maps to
\* v's scan code, the Key get_key returns for that u itself.
C9_NumpadFollowsHighestAlias ==
  \A t \in Threads :
    (call[t].made /\ call[t].vkey \in NumpadVkeySet) =>
      LET c == call[t]
      IN /\ (c.num_lock_on /\ NumpadProbe(c.vkey, c.hkl).kind = "Str") =>
              /\ IsCharacter(c.result)
              /\ c.result.s = NumpadProbe(c.vkey, c.hkl).s
         /\ (~c.num_lock_on /\ NumpadAliases(c.vkey, c.hkl) # {}) =>
              LET u == HighestVkey(NumpadAliases(c.vkey, c.hkl))
              IN /\ c.result = vkey_to_non_char_key(u, NativeWindows(MapVirtualKeyExW(u, c.hkl)),
                                                    c.hkl, FALSE)
                 /\ c.result = get_key(CallLayout(c), c.mods, c.num_lock_on, u,
                                       MapVirtualKeyExW(u, c.hkl),
                                       from_scancode(MapVirtualKeyExW(u, c.hkl)))

\* C9 witness: on a layout where VK_HOME and VK_UP both map to the scan code of
\* Numpad8, VK_NUMPAD8 with NumLock off resolved to ArrowUp, the key of the
\* later vkey, and not to Home, the named key of VK_HOME
C9_HomeAliasOverwritten ==
  \E t \in Threads :
    /\ call[t].made
    /\ call[t].vkey = VK_NUMPAD8
    /\ ~call[t].num_lock_on
    /\ AliasesNumpad(VK_HOME, VK_NUMPAD8, call[t].hkl)
    /\ AliasesNumpad(VK_UP, VK_NUMPAD8, call[t].hkl)
    /\ vkey_to_non_char_key(VK_HOME, NativeWindows(MapVirtualKeyExW(VK_HOME, call[t].hkl)),
                            call[t].hkl, FALSE) = Named("Home")
    /\ call[t].result = Named("ArrowUp")
    /\ CallLayout(call[t]).numlock_on_keys[VK_NUMPAD8].s = << 56 >>

\* C10: in every construction, each first call of a probe starts with no
\* dead key pending in the OS; a first call that reports a dead key is
\* followed immediately by the repeated call with the same inputs, which
\* starts with that dead key pending, returns the composed units and leaves
\* none pending.
C10_NoResidualDeadKey ==
  \A id \in DOMAIN probe_log :
    \A i \in 1 .. Len(probe_log[id]) :
      LET e == probe_log[id][i]
      IN /\ e.phase = 1 => e.latch = NoDead
         /\ e.phase = 2 => e.latch # NoDead /\ e.wide_len > 0
         /\ (e.phase = 1 /\ e.wide_len < 0) =>
              /\ i < Len(probe_log[id])
              /\ probe_log[id][i + 1].phase = 2
              /\ probe_log[id][i + 1].vkey = e.vkey
              /\ probe_log[id][i + 1].scancode = e.scancode
              /\ probe_log[id][i + 1].mods = e.mods

\* C10 witness: the German layout was constructed while the circumflex the
\* user had typed was pending: the first probe started with it pending and
\* numlock_on_keys holds "^8" for VK_NUMPAD8
C10_TypedAccentInNumLockMap ==
  /\ HKL_DE_DE \in DOMAIN probe_log \cap DOMAIN layouts
  /\ probe_log[HKL_DE_DE][1].phase = 1
  /\ probe_log[HKL_DE_DE][1].latch = 94
  /\ layouts[HKL_DE_DE].numlock_on_keys[VK_NUMPAD8].s = << 94, 56 >>

(***************************************************************************)
(* get_agnostic_mods                                                        *)
(***************************************************************************)
\* the get_agnostic_mods calls whose result a thread holds
ModsCalls == { mods_call[t] : t \in { u \in Threads : mods_call[u].made } }

\* the modifiers get_agnostic_mods reports on layout under the held vkeys
\* are those of the claim
ReportsHeld(layout, held, result) ==
  LET alt_gr == layout.has_alt_graph /\ VK_RMENU \in held
  IN /\ "CONTROL" \in result <=> (VK_CONTROL \in held /\ ~alt_gr)
     /\ "ALT" \in result <=> (VK_MENU \in held /\ ~alt_gr)
     /\ "SHIFT" \in result <=> VK_SHIFT \in held
     /\ "SUPER" \in result <=> (VK_LWIN \in held \/ VK_RWIN \in held)
     /\ ~layout.has_alt_graph =>
          /\ VK_CONTROL \in held => "CONTROL" \in result
          /\ VK_MENU \in held => "ALT" \in result

\* C11: get_agnostic_mods reports CONTROL iff VK_CONTROL is held and AltGr
\* is not engaged, ALT iff VK_MENU is held and AltGr is not engaged, SHIFT
\* iff VK_SHIFT is held and SUPER iff VK_LWIN or VK_RWIN is held; on a layout
\* without AltGr a held right Alt suppresses nothing.  Stated of every call
\* made and, for every cached layout, of every set of held modifier keys.
C11_AgnosticModsSuppressAltGr ==
  /\ \A c \in ModsCalls :
       /\ c.hkl \in DOMAIN layouts
       /\ ReportsHeld(layouts[c.hkl], c.pressed, c.result)
  /\ \A id \in DOMAIN layouts :
       \A held \in SUBSET ModifierVkeys :
         ReportsHeld(layouts[id], held, agnostic_mods(layouts[id], held))

\* AltGr held with Shift and Control on a layout with AltGr: Control is
\* dropped, Shift is kept, and with left Alt held as well Alt is dropped too
C11_AltGrSuppressesControlAlt ==
  \E c \in ModsCalls :
    /\ layouts[c.hkl].has_alt_graph
    /\ c.pressed = { VK_CONTROL, VK_RMENU, VK_SHIFT }
    /\ c.result = { "SHIFT" }
    /\ agnostic_mods(layouts[c.hkl], c.pressed \cup { VK_MENU }) = { "SHIFT" }

(***************************************************************************)
(* get_key never fails                                                      *)
(***************************************************************************)
KeyTags == { "Character", "Dead", "Named", "Unidentified" }

\* C12: every get_key call returns a Key, whatever its arguments (a modifier
\* set that is no key of `keys`, an unknown vkey, a keycode absent from every
\* table), and when neither the named key of the vkey, nor the NumLock map,
\* nor keys[mods][keycode] resolves, the Key is
\* Unidentified(Windows(scancode)).
C12_GetKeyTotal ==
  \A t \in Threads :
    call[t].made =>
      /\ call[t].result.tag \in KeyTags
      /\ ( /\ ~ResolvesByVkey(call[t])
           /\ ~ResolvesByNumLock(call[t])
           /\ ~ResolvesByTable(call[t]) )
         => call[t].result = Unidentified(NativeWindows(call[t].scancode))

\* C12 witness: KeyA resolved under a modifier set that is no key of `keys`
C12_UnknownModsFallThrough ==
  \E t \in Threads :
    /\ call[t].made
    /\ call[t].mods \notin DOMAIN CallLayout(call[t]).keys
    /\ call[t].keycode = KC("KeyA")
    /\ call[t].keycode \in DOMAIN CallLayout(call[t]).keys[0]
    /\ call[t].result = Unidentified(NativeWindows(30))

(***************************************************************************)
(* vkeys without a scan code                                                *)
(***************************************************************************)
\* the vkeys MapVirtualKeyExW maps to no scan code on the layout
UnmappedVkeys(id) == { vk \in 0 .. 255 : MapVirtualKeyExW(vk, id) = 0 }

\* the vkeys of the ToUnicodeEx calls made by the construction of the layout
ProbedVkeys(id) == { probe_log[id][i].vkey : i \in 1 .. Len(probe_log[id]) }

\* C13: a vkey whose scan-code query returns 0 is skipped in every phase of
\* the construction: no ToUnicodeEx call is made for it, it is no key of
\* numlock_on_keys, and the vkey and KeyCode of scan code 0 are keys of
\* neither numlock_off_keys nor any keys[m].
C13_UnmappedVkeySkipped ==
  \A id \in DOMAIN layouts :
    /\ ProbedVkeys(id) \cap UnmappedVkeys(id) = {}
    /\ DOMAIN layouts[id].numlock_on_keys \cap UnmappedVkeys(id) = {}
    /\ keycode_to_vkey(from_scancode(0), id) \notin DOMAIN layouts[id].numlock_off_keys
    /\ \A m \in DOMAIN layouts[id].keys :
         from_scancode(0) \notin DOMAIN layouts[id].keys[m]

\* C13: the NumLock-on pass probed VK_NUMPAD8 with scan code 0 on a layout
\* that maps it to no scan code, while the other passes skipped vkey 'C'
C13_NumpadProbedWithoutScancode ==
  /\ HKL_FR_FR \in DOMAIN layouts
  /\ VK_NUMPAD8 \in UnmappedVkeys(HKL_FR_FR)
  /\ \E i \in 1 .. Len(probe_log[HKL_FR_FR]) :
       /\ probe_log[HKL_FR_FR][i].vkey = VK_NUMPAD8
       /\ probe_log[HKL_FR_FR][i].scancode = 0
  /\ 67 \in UnmappedVkeys(HKL_FR_FR) \ ProbedVkeys(HKL_FR_FR)

(***************************************************************************)
(* Layouts after insertion                                                  *)
(***************************************************************************)
\* C14: no step of the program (get_current_layout for the same or another
\* id, the construction of another layout, get_agnostic_mods, get_key)
\* removes or replaces an entry of the cache or changes the numlock_on_keys,
\* numlock_off_keys, keys or has_alt_graph of a Layout that is in it.
C14_InsertedLayoutsImmutable ==
  [][\A id \in DOMAIN layouts :
       /\ id \in DOMAIN layouts'
       /\ layouts'[id].numlock_on_keys = layouts[id].numlock_on_keys
       /\ layouts'[id].numlock_off_keys = layouts[id].numlock_off_keys
       /\ layouts'[id].keys = layouts[id].keys
       /\ layouts'[id].has_alt_graph = layouts[id].has_alt_graph]_vars

\* C14 witness: get_key runs on the layout constructed first after a second
\* layout has been constructed and inserted
C14_FirstLayoutUsedAfterSecondBuilt ==
  /\ Len(built) = 2
  /\ built[1].id # built[2].id
  /\ { built[1].id, built[2].id } = DOMAIN layouts
  /\ \E t \in Threads : call[t].made /\ call[t].hkl = built[1].id

(***************************************************************************)
(* Character keys of a single vkey                                          *)
(***************************************************************************)
KeyCodeOfVkey(vk, id) == from_scancode(MapVirtualKeyExW(vk, id))

\* the vkeys of layout id that have a scan code, no definite named key, and
\* share their KeyCode with no other vkey
SingleVkeys(id) ==
  { vk \in 0 .. 255 :
      /\ MapVirtualKeyExW(vk, id) # 0
      /\ IsUnidentified(vkey_to_non_char_key(vk, NativeWindows(MapVirtualKeyExW(vk, id)),
                                              id, FALSE))
      /\ \A other \in (0 .. 255) \ { vk } :
           MapVirtualKeyExW(other, id) = 0 \/ KeyCodeOfVkey(other, id) # KeyCodeOfVkey(vk, id) }

\* the layout assigns a decodable string to vk under the combination m
SettlesToString(id, vk, m) ==
  /\ OsTranslate(id, vk, m).kind = "str"
  /\ Utf16Valid(OsTranslate(id, vk, m).units)

IsCharacterOf(key, units) == IsCharacter(key) /\ key.s = units

\* the no-modifier and the {Control,Alt} tables hold no two different
\* characters for any KeyCode
NoKeyCodeDiffers(layout) ==
  \A kc \in DOMAIN layout.keys[0] \cap DOMAIN layout.keys[CONTROL + ALT] :
    IsCharacter(layout.keys[0][kc]) /\ IsCharacter(layout.keys[CONTROL + ALT][kc])
      => layout.keys[0][kc].s = layout.keys[CONTROL + ALT][kc].s

\* the tables of a constructed layout hold Character(s) for single-vkey keys
SingleVkeyCharactersStored ==
  \A id \in DOMAIN layouts :
    \A vk \in SingleVkeys(id) :
      \A m \in ModifierCombinations :
        SettlesToString(id, vk, m) =>
          /\ m \in DOMAIN layouts[id].keys
          /\ KeyCodeOfVkey(vk, id) \in DOMAIN layouts[id].keys[m]
          /\ IsCharacterOf(layouts[id].keys[m][KeyCodeOfVkey(vk, id)],
                           OsTranslate(id, vk, m).units)

\* get_key returns that Character for the key's event
SingleVkeyCharactersReturned ==
  \A t \in Threads :
    ( /\ call[t].made
      /\ call[t].vkey \in SingleVkeys(call[t].hkl)
      /\ call[t].keycode = KeyCodeOfVkey(call[t].vkey, call[t].hkl)
      /\ call[t].mods \in ModifierCombinations
      /\ SettlesToString(call[t].hkl, call[t].vkey, call[t].mods) )
    => IsCharacterOf(call[t].result, OsTranslate(call[t].hkl, call[t].vkey, call[t].mods).units)

\* C15: for a character key whose vkey is the only one of its KeyCode and has
\* no definite named key, under every modifier combination m for which the
\* probe gives a string s, keys[m][keycode] = Character(s) and get_key returns
\* it; and a layout whose {Control,Alt} characters all equal the no-modifier
\* characters has has_alt_graph = false.
C15_SingleVkeyCharacters ==
  /\ SingleVkeyCharactersStored
  /\ SingleVkeyCharactersReturned
  /\ \A id \in DOMAIN layouts : NoKeyCodeDiffers(layouts[id]) => ~layouts[id].has_alt_graph

\* C15: on the US layout KeyA is "a" without modifiers, "A" under Shift and
\* under CapsLock, get_key returned "A" for it under CapsLock, and the layout
\* has no AltGr
C15_UsKeyA ==
  /\ HKL_EN_US \in DOMAIN layouts
  /\ 65 \in SingleVkeys(HKL_EN_US)
  /\ IsCharacterOf(layouts[HKL_EN_US].keys[0][KC("KeyA")], << 97 >>)
  /\ IsCharacterOf(layouts[HKL_EN_US].keys[SHIFT][KC("KeyA")], << 65 >>)
  /\ IsCharacterOf(layouts[HKL_EN_US].keys[CAPS_LOCK][KC("KeyA")], << 65 >>)
  /\ NoKeyCodeDiffers(layouts[HKL_EN_US])
  /\ ~layouts[HKL_EN_US].has_alt_graph
  /\ \E t \in Threads :
       /\ call[t].made
       /\ call[t].vkey = 65
       /\ call[t].mods = CAPS_LOCK
       /\ IsCharacterOf(call[t].result, << 65 >>)

(***************************************************************************)
(* get_or_insert_str                                                        *)
(***************************************************************************)
\* the entries of a string set whose content is the candidate
EntriesEqualTo(set, candidate) == { e \in set : e.s = candidate }

\* C16: get_or_insert_str returns a string equal in content to the candidate;
\* when the set already holds an equal entry it returns that entry and the
\* set is unchanged, otherwise exactly one entry is added and returned; no
\* entry is removed or replaced, the set holds one entry per distinct content
\* and every call with equal content gets the same reference.
C16_GetOrInsertStr ==
  /\ \A a, b \in strings : a.s = b.s => a = b
  /\ str_call.made =>
       /\ str_call.ref.s = str_call.candidate
       /\ str_call.before \subseteq strings
       /\ EntriesEqualTo(strings, str_call.candidate) = { str_call.ref }
       /\ IF EntriesEqualTo(str_call.before, str_call.candidate) # {}
          THEN /\ str_call.ref \in str_call.before
               /\ strings = str_call.before
          ELSE /\ str_call.ref \notin str_call.before
               /\ strings = str_call.before \cup { str_call.ref }
               /\ Cardinality(strings) = Cardinality(str_call.before) + 1

\* C16 witness: "a" asked for again after "/" and "a" were added is the entry
\* already there, and the set did not grow
C16_RepeatedCandidateReused ==
  /\ str_call.made
  /\ str_call.candidate = << 97 >>
  /\ str_call.ref \in str_call.before
  /\ Cardinality(str_call.before) >= 2
  /\ strings = str_call.before

(***************************************************************************)
(* vkey_to_non_char_key                                                     *)
(***************************************************************************)
\* the OEM vkeys that produce characters
OemCharacterVkeys ==
  { VK_OEM_1, VK_OEM_PLUS, VK_OEM_COMMA, VK_OEM_MINUS, VK_OEM_PERIOD, VK_OEM_2, VK_OEM_3,
    VK_OEM_4, VK_OEM_5, VK_OEM_6, VK_OEM_7, VK_OEM_8, VK_OEM_102 }

\* C17: vkey_to_non_char_key gives a Key for every vkey of 0..255, every
\* layout and both has_alt_graph values, never a Character or a Dead key, and
\* Unidentified(native_code) for each of the 16 numpad vkeys and every
\* character-producing OEM vkey.
C17_NonCharKeyNeverCharacter ==
  vkey_call.made =>
    /\ vkey_call.result.tag \in { "Named", "Unidentified" }
    /\ vkey_call.vkey \in NumpadVkeySet \cup OemCharacterVkeys
         => vkey_call.result = Unidentified(vkey_call.native_code)

\* C17 witness: VK_NUMPAD8 converted for the Japanese layout with AltGr
C17_Numpad8Unidentified ==
  /\ vkey_call.made
  /\ vkey_call.vkey = VK_NUMPAD8
  /\ vkey_call.hkl = HKL_JA_JP
  /\ vkey_call.has_alt_graph
  /\ vkey_call.native_code = NativeWindows(30)
  /\ vkey_call.result = Unidentified(NativeWindows(30))
  /\ Cardinality(NumpadVkeySet) = 16

(***************************************************************************)
(* The key sets of the two NumLock maps                                     *)
(***************************************************************************)
\* C18: in every constructed layout the vkeys that are keys of
\* numlock_off_keys are exactly the vkeys that are keys of numlock_on_keys.
C18_NumLockMapsSameVkeys ==
  \A id \in DOMAIN layouts :
    DOMAIN layouts[id].numlock_off_keys = DOMAIN layouts[id].numlock_on_keys

\* C18: on the German layout VK_MULTIPLY is a key of numlock_on_keys ("*")
\* and no key of numlock_off_keys, VK_NUMPAD8 is a key of both
C18_MultiplyOnlyInNumLockOn ==
  /\ HKL_DE_DE \in DOMAIN layouts
  /\ VK_MULTIPLY \in DOMAIN layouts[HKL_DE_DE].numlock_on_keys
  /\ VK_MULTIPLY \notin DOMAIN layouts[HKL_DE_DE].numlock_off_keys
  /\ VK_NUMPAD8 \in DOMAIN layouts[HKL_DE_DE].numlock_on_keys
  /\ VK_NUMPAD8 \in DOMAIN layouts[HKL_DE_DE].numlock_off_keys

(***************************************************************************)
(* get_agnostic_mods reads the key state afresh                             *)
(***************************************************************************)
\* thread t makes a get_agnostic_mods call in the step, after an earlier call
\* through the same guard
CallsModsAgain(t) ==
  /\ mods_call[t].made
  /\ mods_call'[t].made
  /\ mods_call'[t] # mods_call[t]

\* C19: the result of a get_agnostic_mods call depends only on the OS key
\* state at the call and on has_alt_graph of the layout: a call under the key
\* state and layout of the call before it returns the same set, and a call
\* after the key state changed reports Shift and Super as they are held now,
\* and Control and Alt as held now unless AltGr is engaged now.
C19_AgnosticModsReadFresh ==
  [][\A t \in Threads :
       CallsModsAgain(t) =>
         /\ mods_call'[t].pressed = pressed
         /\ mods_call'[t].changed <=> (mods_call[t].pressed # pressed)
         /\ ( mods_call[t].pressed = pressed /\ mods_call[t].hkl = mods_call'[t].hkl )
              => mods_call'[t].result = mods_call[t].result
         /\ "SHIFT" \in mods_call'[t].result <=> VK_SHIFT \in pressed
         /\ "SUPER" \in mods_call'[t].result <=> (VK_LWIN \in pressed \/ VK_RWIN \in pressed)
         /\ ~(layouts[mods_call'[t].hkl].has_alt_graph /\ VK_RMENU \in pressed) =>
              /\ "CONTROL" \in mods_call'[t].result <=> VK_CONTROL \in pressed
              /\ "ALT" \in mods_call'[t].result <=> VK_MENU \in pressed]_vars

\* C19 witness: a call after Shift was released and Control pressed reports
\* Control only
C19_ChangeReflected ==
  \E t \in Threads :
    /\ mods_call[t].made
    /\ mods_call[t].changed
    /\ mods_call[t].pressed = { VK_CONTROL }
    /\ mods_call[t].result = { "CONTROL" }

(***************************************************************************)
(* The two calls of a dead-key probe                                        *)
(***************************************************************************)
\* call i of the construction of layout id reported a dead key
ReportsDead(id, i) == probe_log[id][i].wide_len < 0

\* calls i and j were made with the same vkey, scan code and key state
SameInputs(id, i, j) ==
  /\ probe_log[id][i].vkey = probe_log[id][j].vkey
  /\ probe_log[id][i].scancode = probe_log[id][j].scancode
  /\ probe_log[id][i].mods = probe_log[id][j].mods

\* the dead key a repeated call stands for
DeadKeyOf(e) ==
  Dead(IF e.wide_len > 0 /\ Utf16Valid(e.label_wide) THEN FirstChar(e.label_wide) ELSE << >>)

\* C20: in the ToUnicodeEx calls of a construction, every call that reports a
\* dead key is followed at once by exactly one repeated call with the same
\* vkey, scan code and key state, no repeated call is made otherwise, and
\* the key recorded is Dead(first character of the repeated call's output)
\* when that output is a non-empty decodable string and Dead(None) otherwise.
C20_DeadProbeRepeatedOnce ==
  \A id \in DOMAIN layouts :
    \A i \in 1 .. Len(probe_log[id]) :
      /\ ReportsDead(id, i) =>
           /\ i < Len(probe_log[id])
           /\ probe_log[id][i + 1].phase = 2
           /\ SameInputs(id, i, i + 1)
           /\ i + 2 <= Len(probe_log[id]) => probe_log[id][i + 2].phase = 1
      /\ probe_log[id][i].phase = 2 =>
           /\ i > 1
           /\ ReportsDead(id, i - 1)
           /\ probe_log[id][i].vkey \in SingleVkeys(id) \ NumpadVkeySet =>
                layouts[id].keys[probe_log[id][i].mods]
                                [KeyCodeOfVkey(probe_log[id][i].vkey, id)]
                  = DeadKeyOf(probe_log[id][i])

\* C20: reset_dead_keys ran between the two calls of a dead-key probe of a
\* construction: the repeated call reported the dead key again and the call
\* after it probes another key or combination
C20_RepeatedCallReportsDead ==
  \E id \in DOMAIN layouts :
    \E i \in 2 .. Len(probe_log[id]) - 1 :
      /\ build_log[id].interrupt = << [at |-> i, kind |-> "reset", accent |-> NoDead] >>
      /\ probe_log[id][i - 1].phase = 1
      /\ ReportsDead(id, i - 1)
      /\ probe_log[id][i].phase = 2
      /\ SameInputs(id, i - 1, i)
      /\ ReportsDead(id, i)
      /\ probe_log[id][i + 1].phase = 1
      /\ ~SameInputs(id, i, i + 1)

(***************************************************************************)
(* The order of the modifier combinations                                   *)
(***************************************************************************)
\* the iterations of the keys loops of the construction of layout id
Steps(id) == build_log[id].steps

\* C21: the combinations are processed in increasing order 0..15: at every
\* iteration the tables of exactly the earlier combinations are stored in
\* layout.keys, so when the AltGr comparison runs under {Control,Alt} the
\* table of {} is there and the unwrap does not panic.
C21_BaselineStoredBeforeAltGrCheck ==
  \A id \in DOMAIN build_log :
    /\ ~build_log[id].panicked
    /\ \A i \in 1 .. Len(Steps(id)) :
         /\ Steps(id)[i].stored = 0 .. Steps(id)[i].mod_state - 1
         /\ i > 1 => Steps(id)[i - 1].mod_state <= Steps(id)[i].mod_state
         /\ Steps(id)[i].mod_state = CONTROL + ALT => 0 \in Steps(id)[i].stored

\* C21 witness: on the German layout the comparison ran for the key "2"
\* under {Control,Alt} against the stored table of {} and found AltGr
C21_ComparisonRanAgainstBaseline ==
  /\ HKL_DE_DE \in DOMAIN build_log
  /\ \E i \in 2 .. Len(Steps(HKL_DE_DE)) :
       /\ Steps(HKL_DE_DE)[i].mod_state = CONTROL + ALT
       /\ Steps(HKL_DE_DE)[i].key_code = KC("Digit2")
       /\ Steps(HKL_DE_DE)[i].unicode = "Str"
       /\ 0 \in Steps(HKL_DE_DE)[i].stored
       /\ ~Steps(HKL_DE_DE)[i - 1].has_alt_graph
       /\ Steps(HKL_DE_DE)[i].has_alt_graph

(***************************************************************************)
(* The key-state array of a modifier combination                            *)
(***************************************************************************)
\* in the array the generic, left and right key of a modifier are all
\* pressed when it is in m, all released otherwise
MarkedAsIn(m, flag, key_state, generic, left, right) ==
  IF contains(m, flag)
  THEN Pressed(key_state, generic) /\ Pressed(key_state, left) /\ Pressed(key_state, right)
  ELSE ~Pressed(key_state, generic) /\ ~Pressed(key_state, left) /\ ~Pressed(key_state, right)

\* C22: the array apply_to_kbd_state leaves for a combination m has the
\* generic, the left and the right vkey of each of Shift, Control and Alt in
\* m pressed, the three vkeys of each one not in m released, and the CapsLock
\* toggle bit set iff CapsLock is in m.
C22_LeftAndRightKeysMarked ==
  kbd_call.made =>
    /\ MarkedAsIn(kbd_call.self, SHIFT, kbd_call.after, VK_SHIFT, VK_LSHIFT, VK_RSHIFT)
    /\ MarkedAsIn(kbd_call.self, CONTROL, kbd_call.after, VK_CONTROL, VK_LCONTROL, VK_RCONTROL)
    /\ MarkedAsIn(kbd_call.self, ALT, kbd_call.after, VK_MENU, VK_LMENU, VK_RMENU)
    /\ HasBit(kbd_call.after[VK_CAPITAL], 1) <=> contains(kbd_call.self, CAPS_LOCK)

\* C22: {Shift} applied to the all-zero array presses VK_SHIFT and leaves
\* VK_LSHIFT and VK_RSHIFT released
C22_OnlyGenericShiftPressed ==
  /\ kbd_call.made
  /\ kbd_call.self = SHIFT
  /\ kbd_call.before = ZeroKeyState
  /\ Pressed(kbd_call.after, VK_SHIFT)
  /\ ~Pressed(kbd_call.after, VK_LSHIFT)
  /\ ~Pressed(kbd_call.after, VK_RSHIFT)

(***************************************************************************)
(* has_alt_graph during construction                                        *)
(***************************************************************************)
\* has_alt_graph before iteration i of the construction of layout id
AltGraphBefore(id, i) == IF i = 1 THEN FALSE ELSE Steps(id)[i - 1].has_alt_graph

\* C23: during a construction has_alt_graph is false at the start, changes
\* only in an iteration that probes a key under exactly {Control,Alt},
\* never goes back from true to false, and the Layout gets its last value.
C23_AltGraphSetOnlyUnderControlAlt ==
  \A id \in DOMAIN build_log :
    /\ \A i \in 1 .. Len(Steps(id)) :
         /\ Steps(id)[i].has_alt_graph # AltGraphBefore(id, i) =>
              /\ Steps(id)[i].mod_state = CONTROL + ALT
              /\ Steps(id)[i].unicode = "Str"
         /\ AltGraphBefore(id, i) => Steps(id)[i].has_alt_graph
         /\ Steps(id)[i].mod_state < CONTROL + ALT => ~Steps(id)[i].has_alt_graph
    /\ Steps(id) # << >> =>
         layouts[id].has_alt_graph = Steps(id)[Len(Steps(id))].has_alt_graph

\* C23 witness: on the Korean layout the A key gives "A" under
\* {Shift,Control,Alt} against "a" under {}, and has_alt_graph stays false
C23_DifferenceUnderShiftControlAltIgnored ==
  /\ HKL_KO_KR \in DOMAIN build_log
  /\ ~layouts[HKL_KO_KR].has_alt_graph
  /\ IsCharacterOf(layouts[HKL_KO_KR].keys[0][KC("KeyA")], << 97 >>)
  /\ \E i \in 1 .. Len(Steps(HKL_KO_KR)) :
       /\ Steps(HKL_KO_KR)[i].mod_state = SHIFT + CONTROL + ALT
       /\ Steps(HKL_KO_KR)[i].key_code = KC("KeyA")
       /\ IsCharacterOf(Steps(HKL_KO_KR)[i].key, << 65 >>)
       /\ ~Steps(HKL_KO_KR)[i].has_alt_graph

(***************************************************************************)
(* Named keys in the keys loops                                             *)
(***************************************************************************)
\* the key vkey_to_non_char_key gives for vk at construction
PreliminaryKey(vk, id) ==
  vkey_to_non_char_key(vk, NativeWindows(MapVirtualKeyExW(vk, id) % 65536), id, FALSE)

\* the vkeys of layout id with a scan code and a definite named key
NamedVkeys(id) ==
  { vk \in 0 .. 255 :
      MapVirtualKeyExW(vk, id) # 0 /\ ~IsUnidentified(PreliminaryKey(vk, id)) }

\* the iterations of the construction of layout id that handled vk
StepsOf(id, vk) == { i \in 1 .. Len(Steps(id)) : Steps(id)[i].vk = vk }

\* C24: for a vkey with a scan code and a definite named key (has_alt_graph
\* taken as false), the construction makes no ToUnicodeEx call, and under
\* each of the 16 combinations it records that same named key once.
C24_NamedVkeysNeverProbed ==
  \A id \in DOMAIN build_log :
    \A vk \in NamedVkeys(id) :
      /\ vk \notin ProbedVkeys(id)
      /\ { Steps(id)[i].mod_state : i \in StepsOf(id, vk) } = ModifierCombinations
      /\ Cardinality(StepsOf(id, vk)) = Cardinality(ModifierCombinations)
      /\ \A i \in StepsOf(id, vk) :
           /\ Steps(id)[i].unicode = "Named"
           /\ Steps(id)[i].key = PreliminaryKey(vk, id)
           /\ Steps(id)[i].key_code = KeyCodeOfVkey(vk, id)

\* C24 witness: on the US layout VK_UP is recorded as ArrowUp under
\* {Shift,Control,Alt,CapsLock} without a probe, while the A key is probed
C24_ArrowUpRecordedUnprobed ==
  /\ HKL_EN_US \in DOMAIN build_log
  /\ VK_UP \in NamedVkeys(HKL_EN_US) \ ProbedVkeys(HKL_EN_US)
  /\ 65 \in ProbedVkeys(HKL_EN_US)
  /\ \E i \in StepsOf(HKL_EN_US, VK_UP) :
       /\ Steps(HKL_EN_US)[i].mod_state = FLAGS_END - 1
       /\ Steps(HKL_EN_US)[i].key = Named("ArrowUp")

(***************************************************************************)
(* A probe that yields nothing                                              *)
(***************************************************************************)
\* {}, {Shift}, {CapsLock}, {Shift,CapsLock}
CombinationsWithoutControlAlt == { 0, SHIFT, CAPS_LOCK, SHIFT + CAPS_LOCK }

\* C25: an iteration whose probe yields nothing records Character("/") when
\* the KeyCode is NumpadDivide and the combination has neither Alt nor
\* Control, and the Unidentified preliminary key of the vkey in every other
\* case.
C25_NothingProbedFallback ==
  \A id \in DOMAIN build_log :
    \A i \in 1 .. Len(Steps(id)) :
      Steps(id)[i].unicode = "None" =>
        IF Steps(id)[i].key_code = KC("NumpadDivide")
           /\ Steps(id)[i].mod_state \in CombinationsWithoutControlAlt
        THEN IsCharacterOf(Steps(id)[i].key, << 47 >>)
        ELSE /\ IsUnidentified(Steps(id)[i].key)
             /\ Steps(id)[i].key = PreliminaryKey(Steps(id)[i].vk, id)

\* C25 witness: on the US layout the divide key probes to nothing and is
\* recorded as "/" under {Shift,CapsLock} and as Unidentified under
\* {Control}; the A key probing to nothing under {Control,Alt} is recorded as
\* Unidentified
C25_DivideForcedToSlash ==
  /\ HKL_EN_US \in DOMAIN build_log
  /\ \E i, j, k \in 1 .. Len(Steps(HKL_EN_US)) :
       /\ Steps(HKL_EN_US)[i].vk = VK_DIVIDE
       /\ Steps(HKL_EN_US)[i].mod_state = SHIFT + CAPS_LOCK
       /\ Steps(HKL_EN_US)[i].unicode = "None"
       /\ Steps(HKL_EN_US)[i].key = Character(StaticSlash)
       /\ Steps(HKL_EN_US)[j].vk = VK_DIVIDE
       /\ Steps(HKL_EN_US)[j].mod_state = CONTROL
       /\ Steps(HKL_EN_US)[j].key = Unidentified(NativeWindows(57397))
       /\ Steps(HKL_EN_US)[k].vk = 65
       /\ Steps(HKL_EN_US)[k].mod_state = CONTROL + ALT
       /\ Steps(HKL_EN_US)[k].unicode = "None"
       /\ Steps(HKL_EN_US)[k].key = Unidentified(NativeWindows(30))

(***************************************************************************)
(* The work of one construction                                             *)
(***************************************************************************)
\* the number of first ToUnicodeEx calls of probes in the construction of id
FirstCalls(id) ==
  Cardinality({ i \in 1 .. Len(probe_log[id]) : probe_log[id][i].phase = 1 })

\* the number of iterations of the keys loops that probed their vkey
ProbedSteps(id) ==
  Cardinality({ i \in 1 .. Len(Steps(id)) : Steps(id)[i].unicode # "Named" })

\* C26: a construction ends with a Layout of 16 tables after at most one
\* probe per vkey of NUMPAD_VKEYS in the numpad loop and at most one probe
\* per vkey 0..255 and combination in the keys loops, each probe being one
\* ToUnicodeEx call followed by at most one repeated call.
C26_ConstructionBounded ==
  \A id \in DOMAIN build_log :
    /\ ~build_log[id].panicked
    /\ id \in DOMAIN layouts
    /\ DOMAIN layouts[id].keys = ModifierCombinations
    /\ \A i \in 2 .. Len(Steps(id)) :
         \/ Steps(id)[i - 1].mod_state < Steps(id)[i].mod_state
         \/ /\ Steps(id)[i - 1].mod_state = Steps(id)[i].mod_state
            /\ Steps(id)[i - 1].vk < Steps(id)[i].vk
    /\ \A i \in 1 .. Len(Steps(id)) :
         Steps(id)[i].vk \in 0 .. 255 /\ Steps(id)[i].mod_state \in ModifierCombinations
    /\ ProbedSteps(id) <= 256 * Cardinality(ModifierCombinations)
    /\ FirstCalls(id) >= ProbedSteps(id)
    /\ FirstCalls(id) - ProbedSteps(id) <= Len(NUMPAD_VKEYS)
    /\ \A i \in 1 .. Len(probe_log[id]) :
         probe_log[id][i].phase = 2 => i > 1 /\ probe_log[id][i - 1].phase = 1

\* C26 witness: the construction of the French layout ended after 16 probes
\* in the numpad loop, probes answered with nothing and dead-key probes
\* with their repeated call in the keys loops
C26_FrenchConstructionEnded ==
  /\ HKL_FR_FR \in DOMAIN layouts
  /\ FirstCalls(HKL_FR_FR) - ProbedSteps(HKL_FR_FR) = Len(NUMPAD_VKEYS)
  /\ \E i \in 1 .. Len(Steps(HKL_FR_FR)) : Steps(HKL_FR_FR)[i].unicode = "None"
  /\ \E i \in 1 .. Len(Steps(HKL_FR_FR)) : Steps(HKL_FR_FR)[i].unicode = "Dead"
  /\ Len(probe_log[HKL_FR_FR]) > FirstCalls(HKL_FR_FR)

(***************************************************************************)
(* What the holder of the guard finds in the cache                          *)
(***************************************************************************)
\* the combinations whose keys loop ran in the construction of id
CombinationsRun(id) ==
  { Steps(id)[i].mod_state : i \in 1 .. Len(Steps(id)) }

\* C27: while a thread holds the guard, an entry found vacant stays out of
\* the cache until prepare_layout has returned, and every Layout in the cache
\* comes from a construction that ran all 16 combinations, has its 16
\* tables, and, when has_alt_graph is true, has no table mapping AltRight
\* to Alt.
C27_NoPartialLayoutObservable ==
  \A t \in Threads :
    mutex = t =>
      /\ pc[t] = "vacant" => locale_id[t] \notin DOMAIN layouts
      /\ \A id \in DOMAIN layouts :
           /\ id \in DOMAIN build_log
           /\ CombinationsRun(id) = ModifierCombinations
           /\ DOMAIN layouts[id].keys = ModifierCombinations
           /\ layouts[id].has_alt_graph =>
                \A m \in DOMAIN layouts[id].keys :
                  \A kc \in DOMAIN layouts[id].keys[m] :
                    ~(kc = KC("AltRight") /\ layouts[id].keys[m][kc] = Named("Alt"))

\* C27 witness: a thread holding the guard has just constructed a layout
\* with has_alt_graph true while another layout is in the cache, and the
\* table of {} of the new layout maps AltRight to AltGraph
C27_HolderSeesCompleteLayouts ==
  \E t \in Threads :
    /\ mutex = t
    /\ pc[t] = "ready"
    /\ entry[t] = "vacant"
    /\ Cardinality(DOMAIN layouts) = 2
    /\ layouts[locale_id[t]].has_alt_graph
    /\ layouts[locale_id[t]].keys[0][KC("AltRight")] = Named("AltGraph")

StoredNativeCodes(id, key_code) ==
  { NativeWindows(MapVirtualKeyExW(vk, id) % 65536) :
      vk \in { v \in 0 .. 255 : /\ MapVirtualKeyExW(v, id) # 0
                                /\ from_scancode(MapVirtualKeyExW(v, id)) = key_code } }

AgnosticModsStep(t) ==
  /\ pc'[t] = "mods"
  /\ \/ pc[t] = "locked"
     \/ locale_id'[t] # locale_id[t]
     \/ entry'[t] # entry[t]
     \/ mods_call'[t] # mods_call[t]
     \/ built' # built

\* the step is a get_current_layout call of thread t
CurrentLayoutStep(t) ==
  pc[t] = "locked" /\ pc'[t] \in { "ready", "vacant" }

\* prepare_layout ran for id
Constructed(id) == \E i \in 1 .. Len(built) : built[i].id = id

\* C29: a get_agnostic_mods call whose active layout id is not cached
\* constructs that layout once and inserts it, leaving the other entries
\* alone; a call whose id is cached leaves the cache as it is; and a
\* get_current_layout or get_agnostic_mods call for an id constructed before
\* finds it in the cache and constructs nothing.
C29_AgnosticModsFillsCache ==
  [][\A t \in Threads :
       /\ AgnosticModsStep(t) =>
            IF active[t] \in DOMAIN layouts
            THEN /\ layouts' = layouts
                 /\ strings' = strings
                 /\ built' = built
                 /\ entry'[t] = "occupied"
            ELSE /\ DOMAIN layouts' = DOMAIN layouts \cup { active[t] }
                 /\ \A id \in DOMAIN layouts : layouts'[id] = layouts[id]
                 /\ layouts'[active[t]].hkl = active[t]
                 /\ built' = Append(built, [id |-> active[t], thread |-> t])
                 /\ entry'[t] = "vacant"
       /\ (AgnosticModsStep(t) \/ CurrentLayoutStep(t)) /\ Constructed(active[t]) =>
            /\ entry'[t] = "occupied"
            /\ built' = built
            /\ layouts' = layouts]_vars

\* C29 witness: get_agnostic_mods found the entry of the active layout
\* vacant, and the layout it constructed is in the cache
C29_ConstructedByAgnosticMods ==
  \E t \in Threads :
    /\ pc[t] = "mods"
    /\ entry[t] = "vacant"
    /\ mods_call[t].made
    /\ built = << [id |-> active[t], thread |-> t] >>
    /\ active[t] \in DOMAIN layouts

(***************************************************************************)
(* apply_to_kbd_state followed by active_modifiers                          *)
(***************************************************************************)
\* key_state is one of PriorKeyStates: the modifier keys up or down, the
\* CapsLock entry with any of its two bits, every other entry and the
\* toggle bits of the modifier keys as one of RestSettings
IsPriorKeyState(key_state) ==
  \E rest \in RestSettings :
    \A vk \in 0 .. 255 :
      IF vk = VK_CAPITAL THEN key_state[vk] \in { 0, 1, 128, 129 }
      ELSE IF vk \in ModifierKeyVkeys THEN key_state[vk] \in { rest % 2, 128 + (rest % 2) }
      ELSE key_state[vk] = rest

\* C30: for each of the 16 combinations m and every prior key-state array,
\* active_modifiers reads m from the array apply_to_kbd_state(m) leaves; the
\* array left is again a prior array, the all-zero array prepare_layout
\* starts from is one, so the same holds after any sequence of combinations
\* applied to one array.
C30_ActiveModifiersOfApplied ==
  /\ IsPriorKeyState(ZeroKeyState)
  /\ IsPriorKeyState(kbd_call.before)
  /\ kbd_call.made =>
       /\ active_modifiers(kbd_call.after) = kbd_call.self
       /\ IsPriorKeyState(kbd_call.after)

\* C30 witness: {Shift, Alt} was applied to an array in which the right
\* Control key was down and CapsLock toggled, as an earlier combination or the
\* user may leave it, and active_modifiers reads {Shift, Alt}
C30_AppliedOverOtherCombination ==
  /\ kbd_call.made
  /\ kbd_call.self = SHIFT + ALT
  /\ Pressed(kbd_call.before, VK_RCONTROL)
  /\ Pressed(kbd_call.before, VK_CONTROL)
  /\ HasBit(kbd_call.before[VK_CAPITAL], 1)
  /\ active_modifiers(kbd_call.before) = CONTROL + CAPS_LOCK
  /\ active_modifiers(kbd_call.after) = SHIFT + ALT

(***************************************************************************)
(* Several vkeys of one KeyCode                                             *)
(***************************************************************************)
\* the vkeys of layout id with a scan code
MappedVkeys(id) == { vk \in 0 .. 255 : MapVirtualKeyExW(vk, id) # 0 }

\* the vkeys among mapped whose scan code gives key_code on layout id
VkeysOfKeyCode(id, key_code, mapped) ==
  { vk \in mapped : KeyCodeOfVkey(vk, id) = key_code }

\* the KeyCodes of layout id that two or more vkeys among mapped map to
SharedKeyCodes(id, mapped) ==
  { KeyCodeOfVkey(vk, id) :
      vk \in { v \in mapped :
                 \E other \in mapped \ { v } :
                   KeyCodeOfVkey(other, id) = KeyCodeOfVkey(v, id) } }

\* the tables of layout id hold, for each KeyCode shared by vkeys among
\* mapped, the key of the iteration of the highest of them
HighestVkeyWins(id, mapped) ==
  \A kc \in SharedKeyCodes(id, mapped) :
    \A m \in ModifierCombinations :
      /\ kc \in DOMAIN layouts[id].keys[m]
      /\ \E i \in StepsOf(id, HighestVkey(VkeysOfKeyCode(id, kc, mapped))) :
           /\ Steps(id)[i].mod_state = m
           /\ Steps(id)[i].key_code = kc
           /\ layouts[id].keys[m][kc] = Steps(id)[i].key

\* C31: for a KeyCode that two or more vkeys with a scan code map to, the
\* entry of the KeyCode in the table of each combination is the key the
\* construction computed for the highest-numbered of these vkeys under that
\* combination.
C31_HighestVkeyWins ==
  \A id \in DOMAIN build_log : HighestVkeyWins(id, MappedVkeys(id))

\* C31 witness: VK_UP, with the definite named key ArrowUp, and the higher
\* VK_NUMPAD8, probed to a character, map to KeyCode Numpad8, and the table
\* of {} holds the character
C31_ProbedCharacterOverNamedKey ==
  \E id \in DOMAIN build_log :
    /\ VkeysOfKeyCode(id, KC("Numpad8"), MappedVkeys(id)) = { VK_UP, VK_NUMPAD8 }
    /\ \E i \in StepsOf(id, VK_UP) :
         Steps(id)[i].mod_state = 0 /\ Steps(id)[i].key = Named("ArrowUp")
    /\ IsCharacter(layouts[id].keys[0][KC("Numpad8")])

(***************************************************************************)
(* The keys and values of the NumLock maps                                  *)
(***************************************************************************)
\* key is a definite named key
IsNamedKey(key) == key.tag = "Named"

\* C32: in every constructed Layout the keys of numlock_on_keys and of
\* numlock_off_keys are vkeys of NUMPAD_VKEYS (VK_MENU is none), every value
\* of numlock_on_keys is a Character and every value of numlock_off_keys is
\* a definite named key.
C32_NumLockMapsWellFormed ==
  \A id \in DOMAIN layouts :
    /\ DOMAIN layouts[id].numlock_on_keys \subseteq NumpadVkeySet
    /\ DOMAIN layouts[id].numlock_off_keys \subseteq NumpadVkeySet
    /\ VK_MENU \notin DOMAIN layouts[id].numlock_on_keys \cup DOMAIN layouts[id].numlock_off_keys
    /\ \A vk \in DOMAIN layouts[id].numlock_on_keys :
         IsCharacter(layouts[id].numlock_on_keys[vk])
    /\ \A vk \in DOMAIN layouts[id].numlock_off_keys :
         /\ IsNamedKey(layouts[id].numlock_off_keys[vk])
         /\ ~IsUnidentified(layouts[id].numlock_off_keys[vk])
         /\ ~IsCharacter(layouts[id].numlock_off_keys[vk])
         /\ layouts[id].numlock_off_keys[vk].tag # "Dead"

\* C32 witness: a Layout whose numlock_on_keys holds characters for
\* VK_NUMPAD8, VK_DECIMAL and VK_MULTIPLY and whose numlock_off_keys maps
\* VK_NUMPAD8 to ArrowUp and VK_DECIMAL to Delete, VK_MULTIPLY having been
\* passed over with its Unidentified key
C32_BothMapsFilled ==
  \E id \in DOMAIN layouts :
    /\ DOMAIN layouts[id].numlock_on_keys = { VK_NUMPAD8, VK_DECIMAL, VK_MULTIPLY }
    /\ DOMAIN layouts[id].numlock_off_keys = { VK_NUMPAD8, VK_DECIMAL }
    /\ layouts[id].numlock_off_keys[VK_NUMPAD8] = Named("ArrowUp")
    /\ layouts[id].numlock_off_keys[VK_DECIMAL] = Named("Delete")

(***************************************************************************)
(* What the result of vkey_to_non_char_key depends on                       *)
(***************************************************************************)
\* the vkeys whose arms test the primary language of the layout
LanguageVkeys == { VK_KANA, VK_KANJI, VK_OEM_FINISH }

\* C33: a call of vkey_to_non_char_key and the call with the same vkey and
\* native code under any other layout id and has_alt_graph give different
\* results only when the vkey is VK_RMENU and has_alt_graph differs, or the
\* vkey is VK_HANGUL/VK_KANA, VK_HANJA/VK_KANJI or VK_OEM_FINISH and the
\* primary language differs; VK_RMENU gives AltGraph with the flag and Alt
\* without it.
C33_VkeyResultDependsOnlyOn ==
  vkey_call.made =>
    /\ \A hkl \in Hkls, has_alt_graph \in BOOLEAN :
         vkey_to_non_char_key(vkey_call.vkey, vkey_call.native_code, hkl, has_alt_graph)
           # vkey_call.result =>
             \/ /\ vkey_call.vkey = VK_RMENU
                /\ has_alt_graph # vkey_call.has_alt_graph
             \/ /\ vkey_call.vkey \in LanguageVkeys
                /\ PRIMARYLANGID(hkl) # PRIMARYLANGID(vkey_call.hkl)
    /\ vkey_call.vkey = VK_RMENU =>
         vkey_call.result = IF vkey_call.has_alt_graph THEN Named("AltGraph") ELSE Named("Alt")

\* C33 witness: VK_KANA was resolved on the Korean layout to HangulMode,
\* where the Japanese layout gives KanaMode and the US layout Unidentified
C33_HangulOnKorean ==
  /\ vkey_call.made
  /\ vkey_call.vkey = VK_KANA
  /\ vkey_call.hkl = HKL_KO_KR
  /\ vkey_call.result = Named("HangulMode")
  /\ vkey_to_non_char_key(VK_KANA, vkey_call.native_code, HKL_JA_JP, vkey_call.has_alt_graph)
       = Named("KanaMode")
  /\ IsUnidentified(vkey_to_non_char_key(VK_KANA, vkey_call.native_code, HKL_EN_US,
                                         vkey_call.has_alt_graph))

(***************************************************************************)
(* remove_only_ctrl                                                         *)
(***************************************************************************)
\* C34: remove_only_ctrl keeps SHIFT, ALT, CAPS_LOCK (and FLAGS_END) as they
\* are in its input, keeps CONTROL exactly when the input holds CONTROL and
\* ALT, and applied to its own result it returns that result.
C34_RemoveOnlyCtrl ==
  ctrl_call.applied >= 1 =>
    /\ \A flag \in { SHIFT, ALT, CAPS_LOCK, FLAGS_END } :
         contains(ctrl_call.result, flag) = contains(ctrl_call.self, flag)
    /\ contains(ctrl_call.result, CONTROL)
         = (contains(ctrl_call.self, CONTROL) /\ contains(ctrl_call.self, ALT))
    /\ ctrl_call.result \in FlagSets
    /\ contains(ctrl_call.self, ALT) => ctrl_call.result = ctrl_call.self
    /\ ~contains(ctrl_call.self, ALT) => ctrl_call.result = ClearBit(ctrl_call.self, CONTROL)
    /\ ctrl_call.applied >= 2 => ctrl_call.result = ctrl_call.previous

\* C34 witness: {Shift, Control} became {Shift}, and the operation applied
\* again left {Shift}
C34_ControlRemovedOnce ==
  /\ ctrl_call.applied = 2
  /\ ctrl_call.self = SHIFT + CONTROL
  /\ ctrl_call.previous = SHIFT
  /\ ctrl_call.result = SHIFT

(***************************************************************************)
(* The top extent on the UnsupportedNested path                             *)
(***************************************************************************)
\* C35: on the UnsupportedNested path the top extent is
\* max(0, inner_y_rel_root - outer_y).
C35_TopIsClampedDifference ==
  frame_call.made /\ frame_call.result.heuristic_path = "UnsupportedNested" =>
    frame_call.result.frame_extents.top =
      IF frame_call.inner_y_rel_root - frame_call.outer_y < 0 THEN 0
      ELSE frame_call.inner_y_rel_root - frame_call.outer_y

\* C35 divergence: the client window lies one pixel above the outermost
\* window and the top extent is 65535
C35_NegativeOffsetWrapped ==
  /\ frame_call.made
  /\ frame_call.result.heuristic_path = "UnsupportedNested"
  /\ frame_call.inner_y_rel_root = -1
  /\ frame_call.outer_y = 0
  /\ frame_call.result.frame_extents.top = U16_MODULUS - 1
  /\ frame_call.result.frame_extents.bottom = 0

(***************************************************************************)
(* What apply_to_kbd_state leaves alone                                     *)
(***************************************************************************)
\* the bits of a key-state entry other than bit b
OtherBits(value, b) == IF HasBit(value, b) THEN value - b ELSE value

\* C36: apply_to_kbd_state changes nothing but bit 0x80 of the nine Shift,
\* Control and Alt entries and bit 0x01 of the CapsLock entry: the other bits
\* of these entries and all other entries are as before, and an array whose
\* other keys are all released, as the all-zero array of prepare_layout, is
\* left with them released.
C36_ApplyTouchesModifierBitsOnly ==
  kbd_call.made =>
    /\ \A vk \in 0 .. 255 :
         IF vk \in ModifierKeyVkeys
         THEN OtherBits(kbd_call.after[vk], 128) = OtherBits(kbd_call.before[vk], 128)
         ELSE IF vk = VK_CAPITAL
         THEN OtherBits(kbd_call.after[vk], 1) = OtherBits(kbd_call.before[vk], 1)
         ELSE kbd_call.after[vk] = kbd_call.before[vk]
    /\ (\A vk \in (0 .. 255) \ (ModifierKeyVkeys \cup { VK_CAPITAL }) : kbd_call.before[vk] = 0)
         => \A vk \in (0 .. 255) \ (ModifierKeyVkeys \cup { VK_CAPITAL }) :
              kbd_call.after[vk] = 0

\* C36 witness: {Control, CapsLock} was applied to an array with every
\* other key pressed and toggled and the CapsLock key held down; key 0x41 and
\* the pressed bit of CapsLock are as before, while Control and the CapsLock
\* toggle changed
C36_OtherKeysKept ==
  /\ kbd_call.made
  /\ kbd_call.self = CONTROL + CAPS_LOCK
  /\ kbd_call.before[65] = 129
  /\ kbd_call.after[65] = 129
  /\ kbd_call.before[VK_CAPITAL] = 128
  /\ kbd_call.after[VK_CAPITAL] = 129
  /\ kbd_call.before[VK_CONTROL] = 1
  /\ kbd_call.after[VK_CONTROL] = 129


(***************************************************************************)
(* The second pass of prepare_layout (keyboard_layout.rs:422-432)           *)
(***************************************************************************)
\* after differs from before at most in the AltRight entries of keys
SecondPassFrame(before, after) ==
  /\ after.hkl = before.hkl
  /\ after.has_alt_graph = before.has_alt_graph
  /\ after.numlock_on_keys = before.numlock_on_keys
  /\ after.numlock_off_keys = before.numlock_off_keys
  /\ DOMAIN after.keys = DOMAIN before.keys
  /\ \A m \in DOMAIN before.keys :
       /\ DOMAIN after.keys[m] = DOMAIN before.keys[m]
       /\ \A kc \in DOMAIN before.keys[m] \ { KC("AltRight") } :
            after.keys[m][kc] = before.keys[m][kc]
       /\ KC("AltLeft") \in DOMAIN before.keys[m] => after.keys[m][KC("AltLeft")] = Named("Alt")
  /\ ~before.has_alt_graph => after = before

\* C37: for every constructed layout, the layout after the second pass has
\* the hkl, has_alt_graph, numlock_on_keys and numlock_off_keys of the layout
\* before it, the same combination tables with the same KeyCodes, and the same
\* key at every KeyCode other than AltRight (AltLeft is Alt); when has_alt_graph
\* is false the two layouts are equal.
C37_SecondPassChangesAltRightOnly ==
  \A id \in DOMAIN layouts \cap DOMAIN build_log :
    SecondPassFrame(build_log[id].first_pass, layouts[id])

\* C37 witness: the German layout was constructed with has_alt_graph set; its
\* {} table held Alt at AltRight before the second pass and holds AltGraph
\* after it, and AltLeft is Alt
C37_AltRightRelabelled ==
  /\ HKL_DE_DE \in DOMAIN layouts \cap DOMAIN build_log
  /\ layouts[HKL_DE_DE].has_alt_graph
  /\ build_log[HKL_DE_DE].first_pass.keys[0][KC("AltRight")] = Named("Alt")
  /\ layouts[HKL_DE_DE].keys[0][KC("AltRight")] = Named("AltGraph")
  /\ layouts[HKL_DE_DE].keys[0][KC("AltLeft")] = Named("Alt")

(***************************************************************************)
(* is_numpad_specific and keycode_to_vkey (keyboard_layout.rs:509-734)      *)
(***************************************************************************)
\* C38: is_numpad_specific(vk) is true exactly for the 16 vkeys of
\* NUMPAD_VKEYS, and the body of the numlock_off_keys loop inserts nothing for
\* a vk that is one of them.
C38_NumpadSpecificIsNumpadVkeys ==
  /\ (code_call.made /\ code_call.op = "is_numpad_specific") =>
       (code_call.numpad_specific <=> code_call.vk \in NumpadVkeySet)
  /\ (code_call.made /\ code_call.op = "numlock_off_mapped" /\ code_call.vk \in NumpadVkeySet) =>
       code_call.off = EmptyMap

\* C38 witness: is_numpad_specific was applied to VK_MULTIPLY, a vkey of
\* NUMPAD_VKEYS, and returned false
C38_MultiplyNotNumpadSpecific ==
  /\ code_call.made
  /\ code_call.op = "is_numpad_specific"
  /\ code_call.vk = VK_MULTIPLY
  /\ code_call.vk \in NumpadVkeySet
  /\ ~code_call.numpad_specific

\* keycode_to_vkey with ShiftLeft and ShiftRight mapped as ControlLeft,
\* ControlRight, AltLeft and AltRight are
keycode_to_vkey_unswapped(keycode, hkl) ==
  IF keycode = KC("ShiftLeft") THEN VK_LSHIFT
  ELSE IF keycode = KC("ShiftRight") THEN VK_RSHIFT
  ELSE keycode_to_vkey(keycode, hkl)

\* the body of the numlock_off_keys loop (lines 307-322) with that mapping
numlock_off_mapped_unswapped(sc, vk, id, off) ==
  IF sc = 0 THEN off
  ELSE IF ~is_numpad_specific(vk) /\ from_scancode(sc) \in NUMPAD_KEYCODES
       THEN numlock_off_insert(
              keycode_to_vkey_unswapped(from_scancode(sc), id),
              vkey_to_non_char_key(vk, NativeWindows(sc % 65536), id, FALSE),
              off)
       ELSE off

\* C39: keycode_to_vkey gives VK_RSHIFT for ShiftLeft and VK_LSHIFT for
\* ShiftRight, while ControlLeft, ControlRight, AltLeft and AltRight give the
\* vkey of their own side; the body of the numlock_off_keys loop, the only
\* caller, inserts what it inserts with the unswapped mapping, and inserts
\* only when the KeyCode of the scan code is one of NUMPAD_KEYCODES.
C39_ShiftSwapNotInLayout ==
  /\ (code_call.made /\ code_call.op = "keycode_to_vkey") =>
       /\ code_call.keycode = KC("ShiftLeft") => code_call.map_vkey = VK_RSHIFT
       /\ code_call.keycode = KC("ShiftRight") => code_call.map_vkey = VK_LSHIFT
       /\ code_call.keycode = KC("ControlLeft") => code_call.map_vkey = VK_LCONTROL
       /\ code_call.keycode = KC("ControlRight") => code_call.map_vkey = VK_RCONTROL
       /\ code_call.keycode = KC("AltLeft") => code_call.map_vkey = VK_LMENU
       /\ code_call.keycode = KC("AltRight") => code_call.map_vkey = VK_RMENU
       /\ code_call.keycode \notin { KC("ShiftLeft"), KC("ShiftRight") } =>
            code_call.map_vkey = keycode_to_vkey_unswapped(code_call.keycode, code_call.hkl)
  /\ (code_call.made /\ code_call.op = "numlock_off_mapped") =>
       /\ code_call.off = numlock_off_mapped_unswapped(code_call.scancode, code_call.vk,
                                                       code_call.hkl, EmptyMap)
       /\ code_call.off # EmptyMap => from_scancode(code_call.scancode) \in NUMPAD_KEYCODES

\* C39 witness: the body of the loop ran for VK_LSHIFT with the scan code of
\* ShiftLeft, which keycode_to_vkey maps to VK_RSHIFT, and inserted nothing
C39_ShiftScancodePassedOver ==
  /\ code_call.made
  /\ code_call.op = "numlock_off_mapped"
  /\ code_call.vk = VK_LSHIFT
  /\ from_scancode(code_call.scancode) = KC("ShiftLeft")
  /\ keycode_to_vkey(KC("ShiftLeft"), code_call.hkl) = VK_RSHIFT
  /\ keycode_to_vkey_unswapped(KC("ShiftLeft"), code_call.hkl) = VK_LSHIFT
  /\ code_call.off = EmptyMap
=============================================================================
